---- MODULE Spec2Model ----
(***************************************************************************)
(* Tangent: the tuning state and event coordination engine.                *)
(*                                                                         *)
(*   - the dev server's TangentStateStore (packages/vite/src/state-store)  *)
(*   - the browser event bus (core/src/schema: emitTuningEvent)            *)
(*   - the browser provider (core/src/context/TangentContext.tsx)          *)
(*   - the dev server's POST /__tangent/update handler (vite/src/index.ts) *)
(***************************************************************************)
EXTENDS Integers, Sequences, FiniteSets, TLC

VARIABLES
    store,          \* TangentStateStore: [sequence, events, listeners, suggestions]
    received,       \* per server listener: the sequence numbers it was handed
    bus,            \* schema module state: [sequence, listeners], with the sequence
                    \* numbers assigned so far and the event returned last
    busReceived,    \* per browser-bus listener: the sequence numbers it was handed
    posts,          \* the forwarding listener's POST /__tangent/events requests in flight
    poller,         \* a getEvents consumer: [last, seen]
    detected,       \* a call of detectValueType: [value, key, result]
    syncing,        \* the sync effect: [timer, posts], its timer and its POSTs in flight
    panel,          \* the suggestions panel: its PATCH requests in flight, <<[id, status]>>
    storeRegistrations, \* the server store's registrations, as last synced
    agent,          \* the MCP server: the tool call in progress or its result
    configStore,    \* core/src/store: id -> config, kept for the page's lifetime
    registrations,  \* provider state: the Map of registrations, in insertion order
    isSaving,       \* provider state
    rendered,       \* what the callbacks of the last render closed over
    history,        \* core/src/history: [past, future]
    passes,         \* save passes in flight
    saveResult,     \* what the promise of the save call that finished last settled with
    disk            \* the tunable literals in the source files: id -> config

storeVars == <<store, received, poller, detected, syncing, panel, storeRegistrations, agent>>
busVars == <<bus, busReceived, posts>>
providerVars == <<configStore, registrations, isSaving, rendered, history, passes, saveResult>>

(***************************************************************************)
(* Bounds                                                                  *)
(***************************************************************************)
MaxSeq == 3         \* appends requested per event store in SpecStore
MaxLog == 5         \* appends in SpecLog on top of the replayed ones
MaxEmit == 4        \* Spec, SpecEdit: no operation starts once the bus has numbered this many events
MaxHistory == 2     \* no edit is made once the undo stack holds this many entries
MaxSaved == 1       \* Spec: successful writes of the update endpoint
MaxPasses == 1      \* Spec: save passes in flight at once
MaxSaveEmit == 5    \* SpecSave: as MaxEmit
MaxSaveSaved == 2   \* SpecSave: as MaxSaved
MaxSavePasses == 2  \* SpecSave: as MaxPasses
MaxHistoryEmit == 5 \* SpecHistory: as MaxEmit
MaxEntries == 3     \* SpecHistory: no edit is made once the undo stack holds this many entries
MaxToolEmit == 5    \* SpecTools: as MaxEmit
MaxToolSaved == 3   \* SpecTools: as MaxSaved
MaxUpdateEmit == 3  \* SpecUpdate: as MaxEmit
MaxUpdatePosts == 2 \* SpecUpdate: events the agent posts
MaxWatchEvents == 2 \* SpecWatch: events posted to the server's log
MaxClock == 123     \* SpecWatch: seconds a call of tangent_watch_changes is followed for
MaxForwardEmit == 4 \* SpecForward: as MaxEmit
MaxResetEmit == 4   \* SpecReset: as MaxEmit
MaxResetSaved == 1  \* SpecReset: as MaxSaved
MaxResetPasses == 1 \* SpecReset: as MaxPasses
MaxSyncEmit == 4    \* SpecSync: as MaxEmit
MaxPersistEmit == 4   \* SpecPersist: as MaxEmit
MaxPersistSaved == 3  \* SpecPersist: as MaxSaved
MaxPersistPasses == 1 \* SpecPersist: as MaxPasses
MaxLiveEmit == 4    \* SpecLive: as MaxEmit
MaxLivePosts == 2   \* SpecLive: sync requests in flight
MaxSuggestions == 2 \* SpecAgent: suggestions posted
MaxAgentEvents == 4 \* SpecAgent: no request is made once the server log has numbered this many events
MaxAgentEmit == 2   \* SpecAgent: as MaxEmit
MaxRequests == 1    \* SpecAgent: PATCH requests of the panel in flight

(***************************************************************************)
(* Program constants                                                       *)
(***************************************************************************)
MAX_EVENTS == 500

undefined == 0      \* JavaScript's undefined (values are positive)

(***************************************************************************)
(* Listeners.  A listener is named; its name fixes how its callback        *)
(* behaves: a passive one only consumes the event (the SSE writer of       *)
(* GET /__tangent/events), a faulty one throws, an echoing one records a   *)
(* further event while it is being notified.                               *)
(***************************************************************************)
Listeners == {"passive", "faulty", "echo"}

Throws(l) == l = "faulty"
Reenters(l, event) == l = "echo" /\ event.type # "echo"

EventTypes == {"value.changed", "value.saved"}

Last(s) == s[Len(s)]

\* events.slice(-MAX_EVENTS)
SliceLastMutant(s, n) == IF Len(s) <= n THEN s ELSE SubSeq(s, 1, n)
SliceLast(s, n) == IF Len(s) > n THEN SubSeq(s, Len(s) - n + 1, Len(s)) ELSE s

Remove(s, x) == SelectSeq(s, LAMBDA y : y # x)

InSeq(s, x) == \E i \in 1..Len(s) : s[i] = x

(***************************************************************************)
(* TangentStateStore.recordEvent.  The state it works on is the record     *)
(* st = [sequence, events, listeners, received]; the listeners are called  *)
(* synchronously, in insertion order (a JavaScript Set), and a listener    *)
(* deleted while the loop runs is not visited.                             *)
(***************************************************************************)
RECURSIVE NotifyListeners(_, _, _)
RECURSIVE recordEvent(_, _)

\* listener(event) inside the try block: what the callback does to the store
CallListener(st, l, event) ==
    LET got == [st EXCEPT !.received[l] = Append(@, event.sequence)]
    IN  IF Reenters(l, event)
        THEN recordEvent(got, [type |-> "echo", payload |-> [of |-> event.sequence]])
        ELSE got

\* catch { this.listeners.delete(listener) }
DropBroken(st, l) == [st EXCEPT !.listeners = Remove(@, l)]

NotifyListenersMutant(st, event, todo) ==
    IF todo = <<>> THEN st
    ELSE LET l == Head(todo)
         IN  IF ~InSeq(st.listeners, l)
             THEN NotifyListeners(st, event, Tail(todo))
             ELSE LET called == CallListener(st, l, event)
                  IN  IF Throws(l) THEN DropBroken(called, l)
                      ELSE NotifyListeners(called, event, Tail(todo))

\* for (const listener of this.listeners) { try { listener(event) } catch { ... } }
NotifyListeners(st, event, todo) ==
    IF todo = <<>> THEN st
    ELSE LET l == Head(todo)
         IN  IF ~InSeq(st.listeners, l)
             THEN NotifyListeners(st, event, Tail(todo))
             ELSE LET called == CallListener(st, l, event)
                      after == IF Throws(l) THEN DropBroken(called, l) ELSE called
                  IN  NotifyListeners(after, event, Tail(todo))

NextSequenceMutant(st) == IF st.sequence = 2 THEN 2 ELSE st.sequence + 1
NextSequence(st) == st.sequence + 1

recordEvent(st, partial) ==
    LET event == [type |-> partial.type,
                  sequence |-> NextSequence(st),
                  payload |-> partial.payload]
        pushed == [st EXCEPT !.sequence = event.sequence,
                             !.events = SliceLast(Append(@, event), MAX_EVENTS)]
    IN  NotifyListeners(pushed, event, pushed.listeners)

\* getEvents(sinceSequence)
getEventsMutant(sinceSequence) == SelectSeq(store.events, LAMBDA e : e.sequence >= sinceSequence)
getEvents(sinceSequence) == SelectSeq(store.events, LAMBDA e : e.sequence > sinceSequence)

StoreState == [sequence |-> store.sequence, events |-> store.events,
               listeners |-> store.listeners, suggestions |-> store.suggestions,
               received |-> received]

SetStore(st) ==
    /\ store' = [sequence |-> st.sequence, events |-> st.events, listeners |-> st.listeners,
                 suggestions |-> st.suggestions]
    /\ received' = st.received

(***************************************************************************)
(* The browser event bus: emitTuningEvent and onTuningEvent.               *)
(***************************************************************************)
RECURSIVE BusNotify(_, _, _)
RECURSIVE emitTuningEvent(_, _, _, _)

\* the provider's forwarding listener: fetch(eventsEndpoint, {method: "POST",
\* body: JSON.stringify(event)}), not awaited
Forwards(l) == l = "forward"

BusCallListener(b, l, event) ==
    IF Forwards(l) THEN [b EXCEPT !.posts = Append(@, event)]
    ELSE LET got == [b EXCEPT !.received[l] = Append(@, event.sequence)]
         IN  IF Reenters(l, event)
             THEN emitTuningEvent(got, "echo", [of |-> event.sequence], event.source)
             ELSE got

\* listeners.forEach: a throwing listener is logged and stays subscribed
BusNotify(b, event, todo) ==
    IF todo = <<>> THEN b
    ELSE LET l == Head(todo)
         IN  IF ~InSeq(b.listeners, l)
             THEN BusNotify(b, event, Tail(todo))
             ELSE BusNotify(BusCallListener(b, l, event), event, Tail(todo))

emitTuningEvent(b, type, payload, source) ==
    LET event == [type |-> type, sequence |-> b.sequence + 1,
                  source |-> source, payload |-> payload]
        next == [b EXCEPT !.sequence = event.sequence,
                          !.assigned = Append(@, event.sequence),
                          !.last = <<event>>]
    IN  BusNotify(next, event, next.listeners)

BusState == [sequence |-> bus.sequence, listeners |-> bus.listeners,
             assigned |-> bus.assigned, last |-> bus.last, received |-> busReceived,
             posts |-> posts]

SetBus(b) ==
    /\ bus' = [sequence |-> b.sequence, listeners |-> b.listeners,
               assigned |-> b.assigned, last |-> b.last]
    /\ busReceived' = b.received
    /\ posts' = b.posts

(***************************************************************************)
(* detectValueType(value, key).  A value is its typeof and, for a string,  *)
(* the tests of the function that it passes; a key is the set of the key   *)
(* tests that it passes.                                                   *)
(*   key:   "shadow", "gradient": keyLower.includes(...);                  *)
(*          "easing": includes easing, timing or transition                *)
(*   value: "gradient": includes linear-gradient or radial-gradient;       *)
(*          "easing": includes cubic-bezier or is an easing keyword;       *)
(*          "shadow": matches /^(inset\s+)?-?\d+px\s+-?\d+px\s+\d+px/;       *)
(*          "color": starts with #, rgb or hsl                             *)
(***************************************************************************)
TypeOfs == {"number", "boolean", "string", "object"}
KeyTests == {"shadow", "gradient", "easing"}
ValueTests == {"gradient", "easing", "shadow", "color"}

\* no string starts both with a length and with #, rgb or hsl
DetectValues ==
    {[typeof |-> t, passes |-> p] : t \in TypeOfs \ {"string"}, p \in {{}}}
    \cup {[typeof |-> "string", passes |-> p] :
             p \in {q \in SUBSET ValueTests : ~({"shadow", "color"} \subseteq q)}}

DetectKeys == SUBSET KeyTests

detectValueType(value, key) ==
    IF value.typeof = "number" THEN "number"
    ELSE IF value.typeof = "boolean" THEN "boolean"
    ELSE IF value.typeof = "string"
    THEN IF "shadow" \in key THEN "boxshadow"
         ELSE IF "gradient" \in key THEN "gradient"
         ELSE IF "easing" \in key /\ "easing" \in value.passes THEN "easing"
         ELSE IF "gradient" \in value.passes THEN "gradient"
         ELSE IF "shadow" \in value.passes THEN "boxshadow"
         ELSE IF "color" \in value.passes THEN "color"
         ELSE IF "easing" \in value.passes THEN "easing"
         ELSE "string"
    ELSE "string"

NotCalled == [value |-> [typeof |-> "number", passes |-> {}], key |-> {}, result |-> "none"]

\* a caller evaluates detectValueType(value, key)
Detect ==
    /\ detected.result = "none"
    /\ detected' = [detected EXCEPT !.result = detectValueType(detected.value, detected.key)]
    /\ UNCHANGED <<store, received, poller, syncing, panel, storeRegistrations, agent,
                   busVars, providerVars, disk>>

(***************************************************************************)
(* Initial state: a fresh store and a fresh bus.                           *)
(***************************************************************************)
InitStore ==
    /\ store = [sequence |-> 0, events |-> <<>>, listeners |-> <<>>, suggestions |-> <<>>]
    /\ received = [l \in Listeners |-> <<>>]
    /\ poller = [last |-> 0, seen |-> <<>>]
    /\ detected = NotCalled
    /\ syncing = [timer |-> FALSE, posts |-> <<>>]
    /\ panel = <<>>
    /\ storeRegistrations = <<>>
    /\ agent = [tool |-> "idle"]

InitBus ==
    /\ bus = [sequence |-> 0, listeners |-> <<>>, assigned |-> <<>>, last |-> <<>>]
    /\ busReceived = [l \in Listeners |-> <<>>]
    /\ posts = <<>>

(***************************************************************************)
(* Event store operations                                                  *)
(***************************************************************************)
\* POST /__tangent/events: store.recordEvent(event)
PostEvent(type, max) ==
    /\ store.sequence < max
    /\ SetStore(recordEvent(StoreState, [type |-> type, payload |-> [id |-> "a"]]))
    /\ UNCHANGED <<poller, detected, syncing, panel, storeRegistrations, agent, busVars, providerVars, disk>>

\* GET /__tangent/events: store.onEvent(listener)
OnEvent(l) ==
    /\ ~InSeq(store.listeners, l)
    /\ store' = [store EXCEPT !.listeners = Append(@, l)]
    /\ UNCHANGED <<received, poller, detected, syncing, panel, storeRegistrations, agent, busVars, providerVars, disk>>

\* req.on('close'): unsubscribe()
Unsubscribe(l) ==
    /\ InSeq(store.listeners, l)
    /\ store' = [store EXCEPT !.listeners = Remove(@, l)]
    /\ UNCHANGED <<received, poller, detected, syncing, panel, storeRegistrations, agent, busVars, providerVars, disk>>

\* a consumer polling getEvents with the last sequence it has seen
Poll ==
    /\ getEvents(poller.last) # <<>>
    /\ LET batch == getEvents(poller.last)
       IN  poller' = [last |-> Last(batch).sequence,
                      seen |-> poller.seen \o [i \in 1..Len(batch) |-> batch[i].sequence]]
    /\ UNCHANGED <<store, received, syncing, detected, panel, storeRegistrations, agent, busVars,
                   providerVars, disk>>

(***************************************************************************)
(* Browser bus operations                                                  *)
(***************************************************************************)
Emit(type, source, max) ==
    /\ bus.sequence < max
    /\ SetBus(emitTuningEvent(BusState, type, [id |-> "a"], source))
    /\ UNCHANGED <<storeVars, providerVars, disk>>

OnTuningEvent(l) ==
    /\ ~InSeq(bus.listeners, l)
    /\ bus' = [bus EXCEPT !.listeners = Append(@, l)]
    /\ UNCHANGED <<busReceived, posts, storeVars, providerVars, disk>>

BusUnsubscribe(l) ==
    /\ InSeq(bus.listeners, l)
    /\ bus' = [bus EXCEPT !.listeners = Remove(@, l)]
    /\ UNCHANGED <<busReceived, posts, storeVars, providerVars, disk>>

(***************************************************************************)
(* The browser provider (TangentProviderDev).                              *)
(*                                                                         *)
(* registrations and isSaving are React state: they hold the value after   *)
(* every queued update.  The callbacks handed out by a render (updateValue,*)
(* saveAll, saveSection, resetSection, ...) read the registrations and the *)
(* isSaving flag of that render, kept in rendered, until Render runs.      *)
(***************************************************************************)
Ids == {"a", "b"}
Keys == <<"padding", "gap">>        \* in the order Object.keys lists them
KeySet == {Keys[i] : i \in 1..Len(Keys)}
Values == {60, 80}

\* the config literal of useTangent(id, {...}) in the component's source
Declared == [k \in {"padding"} |-> 60]

Get(config, key) == IF key \in DOMAIN config THEN config[key] ELSE undefined

\* { ...config, [key]: value }
With(config, key, value) ==
    [k \in (DOMAIN config) \cup {key} |-> IF k = key THEN value ELSE config[k]]

ObjectKeys(config) == SelectSeq(Keys, LAMBDA k : k \in DOMAIN config)

\* a Map keyed by id, in insertion order
MapHas(m, id) == \E i \in 1..Len(m) : m[i].id = id
MapGet(m, id) == m[CHOOSE i \in 1..Len(m) : m[i].id = id]
MapSet(m, reg) ==
    IF MapHas(m, reg.id)
    THEN [i \in 1..Len(m) |-> IF m[i].id = reg.id THEN reg ELSE m[i]]
    ELSE Append(m, reg)
MapDelete(m, id) == SelectSeq(m, LAMBDA r : r.id # id)

\* core/src/store
setStoredConfig(cs, id, config) ==
    [i \in (DOMAIN cs) \cup {id} |-> IF i = id THEN config ELSE cs[i]]

updateStoredConfig(cs, id, key, value) ==
    IF id \in DOMAIN cs THEN setStoredConfig(cs, id, With(cs[id], key, value)) ELSE cs

\* core/src/history
pushHistory(h, id, key, oldValue, newValue) ==
    [past |-> Append(h.past, [id |-> id, key |-> key,
                              oldValue |-> oldValue, newValue |-> newValue]),
     future |-> <<>>]

\* core/src/history, undo(): the most recent entry moves to the redo stack
undoHistory(h) ==
    [past |-> SubSeq(h.past, 1, Len(h.past) - 1), future |-> Append(h.future, Last(h.past))]

\* core/src/history, redo(): the most recently undone entry moves back
redoHistoryMutant(h) ==
    [past |-> Append(h.past, Last(h.future)), future |-> h.future]
redoHistory(h) ==
    [past |-> Append(h.past, Last(h.future)),
     future |-> SubSeq(h.future, 1, Len(h.future) - 1)]

\* "Calculate unsaved changes", computed from the registrations of a render
ChangesOf(reg) ==
    LET dirty == SelectSeq(ObjectKeys(reg.currentConfig),
                           LAMBDA k : reg.currentConfig[k] # Get(reg.sourceConfig, k))
    IN  [i \in 1..Len(dirty) |->
            [id |-> reg.id, key |-> dirty[i],
             oldValue |-> Get(reg.sourceConfig, dirty[i]),
             newValue |-> reg.currentConfig[dirty[i]]]]

RECURSIVE unsavedChanges(_)
unsavedChanges(m) ==
    IF m = <<>> THEN <<>> ELSE ChangesOf(Head(m)) \o unsavedChanges(Tail(m))

\* hasUnsavedChanges of the sync effect
hasUnsavedChanges(reg) ==
    \E k \in DOMAIN reg.currentConfig : reg.currentConfig[k] # Get(reg.sourceConfig, k)

\* the bus as the provider sees it: the forwarding listener is subscribed
Emitted(b, type, payload) == emitTuningEvent(b, type, payload, "human")

InitProvider ==
    /\ configStore = <<>>
    /\ registrations = <<>>
    /\ isSaving = FALSE
    /\ rendered = [registrations |-> <<>>, isSaving |-> FALSE]
    /\ history = [past |-> <<>>, future |-> <<>>]
    /\ passes = <<>>
    /\ saveResult = [state |-> "none"]
    /\ disk = [i \in Ids |-> Declared]

\* React renders the provider: new callbacks close over the current state
Render ==
    /\ rendered # [registrations |-> registrations, isSaving |-> isSaving]
    /\ rendered' = [registrations |-> registrations, isSaving |-> isSaving]
    /\ UNCHANGED <<configStore, registrations, isSaving, history, passes, saveResult, disk,
                   storeVars, busVars>>

\* storedConfig ?? { ...registration.originalConfig }
RestoredConfigMutant(id) == Declared
RestoredConfig(id) == IF id \in DOMAIN configStore THEN configStore[id] ELSE Declared

\* register(registration), called by useTangent when a component mounts
Register(id) ==
    /\ LET stored == id \in DOMAIN configStore
           config == RestoredConfig(id)
       IN  /\ configStore' = IF stored THEN configStore
                             ELSE setStoredConfig(configStore, id, Declared)
           /\ registrations' = MapSet(registrations,
                  [id |-> id, originalConfig |-> Declared,
                   currentConfig |-> config, sourceConfig |-> Declared])
           /\ SetBus(Emitted(BusState, "registration.added",
                  [id |-> id, properties |-> config, sourceValues |-> Declared]))
    /\ UNCHANGED <<isSaving, rendered, history, passes, saveResult, disk, storeVars>>

\* unregister(id); the event is emitted by the state updater
Unregister(id) ==
    /\ MapHas(registrations, id)
    /\ SetBus(Emitted(BusState, "registration.removed",
           [id |-> id, properties |-> MapGet(registrations, id).currentConfig]))
    /\ registrations' = MapDelete(registrations, id)
    /\ UNCHANGED <<configStore, isSaving, rendered, history, passes, saveResult, disk, storeVars>>

\* the oldValue updateValue reads: registration?.currentConfig[key]
OldValue(id, key) ==
    IF MapHas(rendered.registrations, id)
    THEN Get(MapGet(rendered.registrations, id).currentConfig, key) ELSE undefined

\* the values of a key in the provider's state
CurrentValue(id, key) ==
    IF MapHas(registrations, id)
    THEN Get(MapGet(registrations, id).currentConfig, key) ELSE undefined
SourceValue(id, key) ==
    IF MapHas(registrations, id)
    THEN Get(MapGet(registrations, id).sourceConfig, key) ELSE undefined

\* the body of updateValue(id, key, value) with skipHistory = false
applyUpdate(id, key, value) ==
    LET known == MapHas(rendered.registrations, id)
        oldValue == OldValue(id, key)
        emits == known /\ oldValue # value
    IN  /\ history' = IF oldValue # undefined /\ oldValue # value
                      THEN pushHistory(history, id, key, oldValue, value)
                      ELSE history
        /\ configStore' = updateStoredConfig(configStore, id, key, value)
        /\ registrations' =
              IF MapHas(registrations, id)
              THEN LET reg == MapGet(registrations, id)
                   IN  MapSet(registrations,
                          [reg EXCEPT !.currentConfig = With(@, key, value)])
              ELSE registrations
        /\ IF emits
           THEN SetBus(Emitted(BusState, "value.changed",
                    [id |-> id, key |-> key, oldValue |-> oldValue, newValue |-> value]))
           ELSE UNCHANGED busVars

\* updateValue called from the control panel
updateValue(id, key, value) ==
    /\ applyUpdate(id, key, value)
    /\ UNCHANGED <<isSaving, rendered, passes, saveResult, disk, storeVars>>

\* what undo and redo do with the entry's value
applyEntry(id, key, value) ==
    /\ configStore' = updateStoredConfig(configStore, id, key, value)
    /\ registrations' =
          IF MapHas(registrations, id)
          THEN LET reg == MapGet(registrations, id)
               IN  MapSet(registrations, [reg EXCEPT !.currentConfig = With(@, key, value)])
          ELSE registrations

\* undo(); without an entry it does nothing
Undo ==
    /\ IF history.past # <<>>
       THEN LET entry == Last(history.past)
            IN  /\ history' = undoHistory(history)
                /\ applyEntry(entry.id, entry.key, entry.oldValue)
       ELSE UNCHANGED <<history, configStore, registrations>>
    /\ UNCHANGED <<isSaving, rendered, passes, saveResult, disk, storeVars, busVars>>

\* redo(); without an undone entry it does nothing
Redo ==
    /\ IF history.future # <<>>
       THEN LET entry == Last(history.future)
            IN  /\ history' = redoHistory(history)
                /\ applyEntry(entry.id, entry.key, entry.newValue)
       ELSE UNCHANGED <<history, configStore, registrations>>
    /\ UNCHANGED <<isSaving, rendered, passes, saveResult, disk, storeVars, busVars>>

\* currentConfig: { ...r.sourceConfig }
ResetTargetMutant(r) == r.originalConfig
ResetTarget(r) == r.sourceConfig

\* resetSection(id) applied to the state st = [configStore, registrations, bus]
resetSection(st, id) ==
    IF ~MapHas(rendered.registrations, id) THEN st
    ELSE LET reg == MapGet(rendered.registrations, id)
         IN  [configStore |-> setStoredConfig(st.configStore, id, reg.sourceConfig),
              registrations |->
                  IF MapHas(st.registrations, id)
                  THEN LET r == MapGet(st.registrations, id)
                       IN  MapSet(st.registrations,
                              [r EXCEPT !.currentConfig = ResetTarget(r)])
                  ELSE st.registrations,
              bus |-> Emitted(st.bus, "value.reset",
                              [id |-> id, keys |-> ObjectKeys(reg.sourceConfig)])]

ProviderState == [configStore |-> configStore, registrations |-> registrations,
                  bus |-> BusState]

SetProviderState(st) ==
    /\ configStore' = st.configStore
    /\ registrations' = st.registrations
    /\ SetBus(st.bus)

ResetSection(id) ==
    /\ MapHas(rendered.registrations, id)
    /\ SetProviderState(resetSection(ProviderState, id))
    /\ UNCHANGED <<isSaving, rendered, history, passes, saveResult, disk, storeVars>>

RECURSIVE ResetEach(_, _)
ResetEachMutant(st, m) ==
    IF m = <<>> THEN st ELSE resetSection(st, Head(m).id)
ResetEach(st, m) ==
    IF m = <<>> THEN st ELSE ResetEach(resetSection(st, Head(m).id), Tail(m))

\* resetAll: registrations.forEach((_, id) => resetSection(id))
ResetAll ==
    /\ rendered.registrations # <<>>
    /\ SetProviderState(ResetEach(ProviderState, rendered.registrations))
    /\ UNCHANGED <<isSaving, rendered, history, passes, saveResult, disk, storeVars>>

(***************************************************************************)
(* Saving.  A pass is a call of saveAll or saveSection suspended at an     *)
(* await: [kind, id, changes, at, await].  changes are the unsaved changes *)
(* the call iterates over and at is the index of the one whose onSave call *)
(* is awaited; await is "request" while POST /__tangent/update is on its   *)
(* way or being handled, then "ok" or "failed" until the pass resumes.     *)
(***************************************************************************)
RemoveAt(s, i) == [j \in 1..(Len(s) - 1) |-> IF j < i THEN s[j] ELSE s[j + 1]]

\* setRegistrations at the end of saveAll: every sourceConfig := currentConfig
MarkAllSavedMutant(m) == m
MarkAllSaved(m) ==
    [i \in 1..Len(m) |-> [m[i] EXCEPT !.sourceConfig = m[i].currentConfig]]

\* setRegistrations at the end of saveSection(id)
MarkSectionSaved(m, id) ==
    IF MapHas(m, id)
    THEN LET r == MapGet(m, id) IN MapSet(m, [r EXCEPT !.sourceConfig = r.currentConfig])
    ELSE m

\* the guard of saveAll
SaveAllGuard == ~rendered.isSaving /\ Len(unsavedChanges(rendered.registrations)) # 0

\* an async function that ends without throwing: its promise is fulfilled with undefined
Fulfilled == [state |-> "fulfilled", value |-> undefined]

\* reg.onSave(key, value): the persist capability, ok | throws
onSave(status) == IF status = 200 THEN "ok" ELSE "failed"

\* saveAll() up to its first await
SaveAllStart ==
    /\ SaveAllGuard
    /\ isSaving' = TRUE
    /\ passes' = Append(passes, [kind |-> "all", id |-> "",
                                 changes |-> unsavedChanges(rendered.registrations),
                                 at |-> 1, await |-> "request"])
    /\ UNCHANGED <<configStore, registrations, rendered, history, saveResult, disk,
                   storeVars, busVars>>

\* saveSection(id) up to its first await; without changes it runs to its end
SaveSectionStart(id) ==
    /\ MapHas(rendered.registrations, id)
    /\ ~rendered.isSaving
    /\ LET sectionChanges == SelectSeq(unsavedChanges(rendered.registrations),
                                       LAMBDA c : c.id = id)
       IN  IF sectionChanges = <<>>
           THEN /\ registrations' = MarkSectionSaved(registrations, id)
                /\ isSaving' = FALSE
                /\ saveResult' = Fulfilled
                /\ UNCHANGED passes
           ELSE /\ isSaving' = TRUE
                /\ passes' = Append(passes, [kind |-> "section", id |-> id,
                                             changes |-> sectionChanges,
                                             at |-> 1, await |-> "request"])
                /\ UNCHANGED <<registrations, saveResult>>
    /\ UNCHANGED <<configStore, rendered, history, disk, storeVars, busVars>>

\* POST /__tangent/update for the request of pass i.  updateSourceFile throws
\* when the file cannot be read or written, or holds no literal for the key.
ServerUpdate(i, writable) ==
    /\ i \in 1..Len(passes)
    /\ passes[i].await = "request"
    /\ LET c == passes[i].changes[passes[i].at]
           found == c.key \in DOMAIN disk[c.id]
       IN  IF writable /\ found
           THEN /\ disk' = [disk EXCEPT ![c.id][c.key] = c.newValue]
                /\ SetStore(recordEvent(StoreState,
                       [type |-> "value.saved",
                        payload |-> [id |-> c.id, key |-> c.key, value |-> c.newValue]]))
                /\ passes' = [passes EXCEPT ![i].await = onSave(200)]
           ELSE /\ passes' = [passes EXCEPT ![i].await = onSave(500)]
                /\ UNCHANGED <<disk, store, received>>
    /\ UNCHANGED <<configStore, registrations, isSaving, rendered, history, saveResult,
                   poller, syncing, detected, panel, storeRegistrations, agent, busVars>>

\* onSave resolved: the pass continues after its await
ResumeSaved(i) ==
    /\ i \in 1..Len(passes)
    /\ passes[i].await = "ok"
    /\ LET p == passes[i]
           c == p.changes[p.at]
       IN  /\ IF p.kind = "all"
              THEN SetBus(Emitted(BusState, "value.saved",
                       [id |-> c.id, key |-> c.key, value |-> c.newValue]))
              ELSE UNCHANGED busVars
           /\ IF p.at < Len(p.changes)
              THEN /\ passes' = [passes EXCEPT ![i].at = p.at + 1, ![i].await = "request"]
                   /\ UNCHANGED <<registrations, isSaving, saveResult>>
              ELSE /\ passes' = RemoveAt(passes, i)
                   /\ registrations' = IF p.kind = "all"
                                       THEN MarkAllSaved(registrations)
                                       ELSE MarkSectionSaved(registrations, p.id)
                   /\ isSaving' = FALSE
                   /\ saveResult' = Fulfilled
    /\ UNCHANGED <<configStore, rendered, history, disk, storeVars>>

\* onSave rejected: catch (console.error) and finally
ResumeFailed(i) ==
    /\ i \in 1..Len(passes)
    /\ passes[i].await = "failed"
    /\ passes' = RemoveAt(passes, i)
    /\ isSaving' = FALSE
    /\ saveResult' = Fulfilled
    /\ UNCHANGED <<configStore, registrations, rendered, history, disk,
                   storeVars, busVars>>

(***************************************************************************)
(* Agent suggestions.  A stored suggestion is one object: the array of the *)
(* store and the payload of every event recorded for it refer to the same  *)
(* object, so an event's payload is kept as a reference [ref |-> id] and   *)
(* read through Payload.  The id (sug_<time>_<random>) is modelled as the  *)
(* next free number.                                                       *)
(***************************************************************************)
Targets == {"a", "ghost"}         \* "ghost" is an id no component registers

\* this.suggestions.find((s) => s.id === id): its index, 0 when there is none
FindSuggestion(st, id) ==
    IF \E i \in 1..Len(st.suggestions) : st.suggestions[i].id = id
    THEN CHOOSE i \in 1..Len(st.suggestions) : st.suggestions[i].id = id
    ELSE 0

\* what a reader of the log finds as the payload of an event
Payload(st, event) ==
    IF "ref" \in DOMAIN event.payload
    THEN st.suggestions[FindSuggestion(st, event.payload.ref)]
    ELSE event.payload

\* addSuggestion(suggestion)
addSuggestion(st, suggestion) ==
    LET stored == [id |-> Len(st.suggestions) + 1,
                   targetId |-> suggestion.targetId, key |-> suggestion.key,
                   suggestedValue |-> suggestion.suggestedValue, status |-> "pending"]
        pushed == [st EXCEPT !.suggestions = Append(@, stored)]
    IN  recordEvent(pushed, [type |-> "suggestion.created", payload |-> [ref |-> stored.id]])

\* updateSuggestionStatus(id, status)
updateSuggestionStatus(st, id, status) ==
    LET i == FindSuggestion(st, id)
    IN  IF i # 0
        THEN recordEvent([st EXCEPT !.suggestions[i].status = status],
                         [type |-> IF status = "accepted" THEN "suggestion.accepted"
                                   ELSE "suggestion.rejected",
                          payload |-> [ref |-> id]])
        ELSE st

\* PATCH /__tangent/suggestions/:id reaches the middleware: no branch of
\* configureServer matches it and the request is passed on with next()
PatchSuggestion(st, id, status) == st

\* POST /__tangent/suggestions, as posted by the MCP tool tangent_suggest_value
PostSuggestion(targetId, key, value) ==
    /\ SetStore(addSuggestion(StoreState,
           [targetId |-> targetId, key |-> key, suggestedValue |-> value]))
    /\ UNCHANGED <<poller, detected, syncing, panel, storeRegistrations, agent, busVars, providerVars, disk>>

\* a caller of the store resolves a suggestion
UpdateSuggestionStatus(id, status) ==
    /\ SetStore(updateSuggestionStatus(StoreState, id, status))
    /\ UNCHANGED <<poller, detected, syncing, panel, storeRegistrations, agent, busVars, providerVars, disk>>

\* SuggestionsPanel.handleAccept(suggestion), for the i-th stored suggestion,
\* up to its await: the value is applied and the PATCH request is sent
HandleAccept(i) ==
    /\ i \in 1..Len(store.suggestions)
    /\ store.suggestions[i].status = "pending"
    /\ LET s == store.suggestions[i]
       IN  /\ applyUpdate(s.targetId, s.key, s.suggestedValue)
           /\ panel' = Append(panel, [id |-> s.id, status |-> "accepted"])
    /\ UNCHANGED <<isSaving, rendered, passes, saveResult, disk, store, received, poller, detected, syncing,
                   storeRegistrations, agent>>

\* SuggestionsPanel.handleReject(suggestion), for the i-th stored suggestion,
\* up to its await: the PATCH request is sent
HandleReject(i) ==
    /\ i \in 1..Len(store.suggestions)
    /\ store.suggestions[i].status = "pending"
    /\ panel' = Append(panel, [id |-> store.suggestions[i].id, status |-> "rejected"])
    /\ UNCHANGED <<store, received, poller, detected, syncing, storeRegistrations, agent, busVars, providerVars, disk>>

\* the dev server answers the panel's oldest PATCH request; the panel then
\* drops the suggestion from its list whatever the answer was
PatchRequest ==
    /\ panel # <<>>
    /\ SetStore(PatchSuggestion(StoreState, Head(panel).id, Head(panel).status))
    /\ panel' = Tail(panel)
    /\ UNCHANGED <<poller, detected, syncing, storeRegistrations, agent, busVars, providerVars, disk>>

\* POST /__tangent/events with a browser event as body, as sent by the
\* provider's forwarding listener: JSON.stringify(event)
PostTuningEvent(type, source) ==
    /\ SetStore(recordEvent(StoreState,
           [type |-> type, sequence |-> 1, source |-> source, payload |-> [id |-> "a"]]))
    /\ UNCHANGED <<poller, detected, syncing, panel, storeRegistrations, agent, busVars, providerVars, disk>>

(***************************************************************************)
(* The server's registration table, filled by the provider's sync effect,  *)
(* and the MCP server's tools, which read it.  agent is [tool |-> "idle"], *)
(* a tool call suspended at an await, or [tool |-> "returned", of, ...].   *)
(***************************************************************************)
\* syncData of the sync effect, for one registration of the render
SyncEntry(reg) ==
    LET keys == ObjectKeys(reg.currentConfig)
    IN  [id |-> reg.id,
         properties |-> [j \in 1..Len(keys) |->
                            [key |-> keys[j], value |-> reg.currentConfig[keys[j]],
                             sourceValue |-> Get(reg.sourceConfig, keys[j])]],
         hasUnsavedChanges |-> hasUnsavedChanges(reg)]

syncData(m) == [i \in 1..Len(m) |-> SyncEntry(m[i])]

\* JSON's null as an element of the posted list
Null == [null |-> TRUE]
IsNull(x) == "null" \in DOMAIN x

\* the first element of the list whose reg.id throws a TypeError
FirstNull(regs) ==
    IF \E n \in 1..Len(regs) : IsNull(regs[n])
    THEN CHOOSE n \in 1..Len(regs) :
            IsNull(regs[n]) /\ \A k \in 1..(n - 1) : ~IsNull(regs[k])
    ELSE Len(regs) + 1

\* syncRegistrations(regs): the table is cleared and refilled, entry by
\* entry, up to an entry that throws
syncRegistrations(regs) == SubSeq(regs, 1, FirstNull(regs) - 1)

\* the request bodies of POST /__tangent/sync: not JSON, the JSON null, an
\* object without registrations, one whose registrations is a number, and
\* one whose registrations is a list
BodyKinds == {"malformed", "null", "absent", "number", "array"}

\* POST /__tangent/sync with the given body: the status of the response and
\* the table the handler leaves
SyncRequest(table, body) ==
    CASE body.kind = "malformed" -> [status |-> 500, registrations |-> table]
      [] body.kind = "null"      -> [status |-> 500, registrations |-> table]
      [] body.kind = "absent"    -> [status |-> 200, registrations |-> syncRegistrations(<<>>)]
      [] body.kind = "number"    -> [status |-> 500, registrations |-> <<>>]
      [] body.kind = "array"     ->
            [status |-> IF FirstNull(body.registrations) <= Len(body.registrations)
                        THEN 500 ELSE 200,
             registrations |-> syncRegistrations(body.registrations)]

\* a client posts a body to /__tangent/sync
PostSync(body) ==
    /\ storeRegistrations' = SyncRequest(storeRegistrations, body).registrations
    /\ UNCHANGED <<store, received, poller, detected, syncing, panel, agent, busVars, providerVars, disk>>

SyncMutant ==
    /\ storeRegistrations' = syncRegistrations(syncData(rendered.registrations))
    /\ store' = [store EXCEPT !.events =
                    SelectSeq(@, LAMBDA e : MapHas(rendered.registrations, e.payload.id))]
    /\ UNCHANGED <<received, poller, detected, syncing, panel, agent, busVars, providerVars, disk>>

\* the timer of the sync effect fires: POST /__tangent/sync
Sync ==
    /\ storeRegistrations' = syncRegistrations(syncData(rendered.registrations))
    /\ UNCHANGED <<store, received, poller, detected, syncing, panel, agent, busVars, providerVars, disk>>

\* React renders the provider and runs the effects of the render: the sync
\* effect clears its timer and sets a new one
Commit ==
    /\ rendered # [registrations |-> registrations, isSaving |-> isSaving]
    /\ rendered' = [registrations |-> registrations, isSaving |-> isSaving]
    /\ syncing' = [syncing EXCEPT !.timer = TRUE]
    /\ UNCHANGED <<configStore, registrations, isSaving, history, passes, saveResult, disk,
                   store, received, poller, detected, panel, storeRegistrations, agent, busVars>>

\* the timer of the sync effect fires: fetch(syncEndpoint, ...) with the
\* registrations of the effect's render, not awaited
SyncTimer ==
    /\ syncing.timer
    /\ syncing' = [timer |-> FALSE,
                   posts |-> Append(syncing.posts, syncData(rendered.registrations))]
    /\ UNCHANGED <<store, received, poller, detected, panel, storeRegistrations, agent, busVars,
                   providerVars, disk>>

\* one of the sync effect's requests reaches the dev server
SyncArrives(i) ==
    /\ i \in 1..Len(syncing.posts)
    /\ storeRegistrations' =
          SyncRequest(storeRegistrations,
                      [kind |-> "array", registrations |-> syncing.posts[i]]).registrations
    /\ syncing' = [syncing EXCEPT !.posts = RemoveAt(@, i)]
    /\ UNCHANGED <<store, received, poller, detected, panel, agent, busVars, providerVars, disk>>

\* tangent_save_all: the properties of one registration it posts
PropsToSave(reg) ==
    LET dirty == SelectSeq(reg.properties,
                           LAMBDA p : p.sourceValue # undefined /\ p.sourceValue # p.value)
    IN  [j \in 1..Len(dirty) |-> [id |-> reg.id, key |-> dirty[j].key, value |-> dirty[j].value]]

\* for (const reg of unsaved) for (const prop of reg.properties)
RECURSIVE UnsavedProps(_)
UnsavedProps(regs) ==
    IF regs = <<>> THEN <<>>
    ELSE (IF Head(regs).hasUnsavedChanges THEN PropsToSave(Head(regs)) ELSE <<>>)
            \o UnsavedProps(Tail(regs))

\* savedCount++
saveAllPosted(a) == [a EXCEPT !.at = @ + 1, !.savedCount = @ + 1]

\* catch (error) { errors.push(...) }
saveAllCaughtMutant(a, c) == [a EXCEPT !.at = Len(a.todo) + 1, !.errors = Append(@, c)]
saveAllCaught(a, c) == [a EXCEPT !.at = @ + 1, !.errors = Append(@, c)]

\* tangent_save_all is called: GET /__tangent/registrations
ToolSaveAll ==
    /\ agent.tool \in {"idle", "returned"}
    /\ LET unsaved == SelectSeq(storeRegistrations, LAMBDA r : r.hasUnsavedChanges)
       IN  agent' = IF unsaved = <<>>
                    THEN [tool |-> "returned", of |-> "tangent_save_all", todo |-> <<>>,
                          savedCount |-> 0, errors |-> <<>>, components |-> 0]
                    ELSE [tool |-> "tangent_save_all", todo |-> UnsavedProps(unsaved),
                          at |-> 1, savedCount |-> 0, errors |-> <<>>,
                          components |-> Len(unsaved)]
    /\ UNCHANGED <<store, received, poller, detected, syncing, panel, storeRegistrations, busVars,
                   providerVars, disk>>

\* tangent_save_all posts its next property to /__tangent/update and the
\* server answers: 200 after the write, 500 when updateSourceFile throws
ToolSaveAllPost(writable) ==
    /\ agent.tool = "tangent_save_all"
    /\ agent.at <= Len(agent.todo)
    /\ LET c == agent.todo[agent.at]
           found == c.key \in DOMAIN disk[c.id]
       IN  IF writable /\ found
           THEN /\ disk' = [disk EXCEPT ![c.id][c.key] = c.value]
                /\ SetStore(recordEvent(StoreState,
                       [type |-> "value.saved",
                        payload |-> [id |-> c.id, key |-> c.key, value |-> c.value]]))
                /\ agent' = saveAllPosted(agent)
           ELSE /\ agent' = saveAllCaught(agent, c)
                /\ UNCHANGED <<disk, store, received>>
    /\ UNCHANGED <<poller, detected, syncing, panel, storeRegistrations, busVars, providerVars>>

\* tangent_save_all returns its report
ToolSaveAllReturn ==
    /\ agent.tool = "tangent_save_all"
    /\ agent.at > Len(agent.todo)
    /\ agent' = [tool |-> "returned", of |-> "tangent_save_all", todo |-> agent.todo,
                 savedCount |-> agent.savedCount, errors |-> agent.errors,
                 components |-> agent.components]
    /\ UNCHANGED <<store, received, poller, detected, syncing, panel, storeRegistrations, busVars,
                   providerVars, disk>>

\* getRegistration(id): the entry of the table, <<>> when there is none
getRegistration(regs, id) == SelectSeq(regs, LAMBDA r : r.id = id)

\* reg.properties?.find((p) => p.key === key)?.value
PropertyValue(reg, key) ==
    LET found == SelectSeq(reg.properties, LAMBDA p : p.key = key)
    IN  IF found = <<>> THEN undefined ELSE found[1].value

\* tangent_update_value(id, key, value) is called:
\* GET /__tangent/registrations/:id, 404 for an id the table does not have
ToolUpdateValue(id, key, value) ==
    /\ agent.tool \in {"idle", "returned"}
    /\ LET reg == getRegistration(storeRegistrations, id)
       IN  agent' = IF reg = <<>>
                    THEN [tool |-> "returned", of |-> "tangent_update_value",
                          isError |-> TRUE]
                    ELSE [tool |-> "tangent_update_value", id |-> id, key |-> key,
                          value |-> value, oldValue |-> PropertyValue(reg[1], key)]
    /\ UNCHANGED <<store, received, poller, detected, syncing, panel, storeRegistrations, busVars,
                   providerVars, disk>>

\* tangent_update_value posts the value.changed event to /__tangent/events
\* and returns
ToolUpdateValuePost ==
    /\ agent.tool = "tangent_update_value"
    /\ SetStore(recordEvent(StoreState,
           [type |-> "value.changed",
            payload |-> [id |-> agent.id, key |-> agent.key,
                         oldValue |-> agent.oldValue, newValue |-> agent.value]]))
    /\ agent' = [tool |-> "returned", of |-> "tangent_update_value", isError |-> FALSE]
    /\ UNCHANGED <<poller, detected, syncing, panel, storeRegistrations, busVars, providerVars, disk>>

(***************************************************************************)
(* tangent_watch_changes.  Time is counted in seconds from the call:       *)
(* elapsed is Date.now() - startTime.  A request takes as long as the dev  *)
(* server takes to answer it; tangentFetch sets no timeout of its own.     *)
(***************************************************************************)
WatchCap == 120         \* Math.min(timeoutSeconds, 120)
pollInterval == 1       \* 1000 ms
Timeouts == {1, 3, 200} \* the caller's timeoutSeconds

\* GET /__tangent/events?since=N: req.url carries the query string, so no
\* branch of the middleware matches it; whatever answers after next() is
\* not an array of events and the tool's .catch(() => []) yields []
EventsSince(sinceSequence) == <<>>

\* tangent_watch_changes({timeoutSeconds, sinceSequence}) is called
ToolWatch(timeoutSeconds, sinceSequence) ==
    /\ agent.tool \in {"idle", "returned"}
    /\ agent' = [tool |-> "tangent_watch_changes",
                 timeout |-> IF timeoutSeconds < WatchCap THEN timeoutSeconds ELSE WatchCap,
                 since |-> sinceSequence, elapsed |-> 0, at |-> "while"]
    /\ UNCHANGED <<store, received, poller, detected, syncing, panel, storeRegistrations, busVars,
                   providerVars, disk>>

\* while (Date.now() - startTime < timeout * 1000): the next poll starts, or
\* the loop ends and the tool returns without events
WatchWhile ==
    /\ agent.tool = "tangent_watch_changes"
    /\ agent.at = "while"
    /\ agent' = IF agent.elapsed < agent.timeout
                 THEN [agent EXCEPT !.at = "health"]
                 ELSE [tool |-> "returned", of |-> "tangent_watch_changes",
                       events |-> <<>>, elapsed |-> agent.elapsed]
    /\ UNCHANGED <<store, received, poller, detected, syncing, panel, storeRegistrations, busVars,
                   providerVars, disk>>

\* the answer to GET /__tangent/health arrives (up: the dev server is running)
WatchHealth(up) ==
    /\ agent.tool = "tangent_watch_changes"
    /\ agent.at = "health"
    /\ agent' = [agent EXCEPT !.at = IF up /\ Len(store.events) > 0
                                      THEN "events" ELSE "sleep"]
    /\ UNCHANGED <<store, received, poller, detected, syncing, panel, storeRegistrations, busVars,
                   providerVars, disk>>

\* the answer to GET /__tangent/events?since=N arrives
WatchEvents ==
    /\ agent.tool = "tangent_watch_changes"
    /\ agent.at = "events"
    /\ LET allEvents == EventsSince(agent.since)
       IN  agent' = IF Len(allEvents) > 0
                    THEN [tool |-> "returned", of |-> "tangent_watch_changes",
                          events |-> allEvents, elapsed |-> agent.elapsed]
                    ELSE [agent EXCEPT !.at = "sleep"]
    /\ UNCHANGED <<store, received, poller, detected, syncing, panel, storeRegistrations, busVars,
                   providerVars, disk>>

\* setTimeout(resolve, pollInterval) fires
WatchSleep ==
    /\ agent.tool = "tangent_watch_changes"
    /\ agent.at = "sleep"
    /\ agent' = [agent EXCEPT !.at = "while", !.elapsed = @ + pollInterval]
    /\ UNCHANGED <<store, received, poller, detected, syncing, panel, storeRegistrations, busVars,
                   providerVars, disk>>

\* a second passes while a request of the tool is not answered yet
WatchWaiting ==
    /\ agent.tool = "tangent_watch_changes"
    /\ agent.at \in {"health", "events"}
    /\ agent' = [agent EXCEPT !.elapsed = @ + 1]
    /\ UNCHANGED <<store, received, poller, detected, syncing, panel, storeRegistrations, busVars,
                   providerVars, disk>>

\* one of the forwarding listener's requests reaches the dev server:
\* POST /__tangent/events, store.recordEvent(event)
PostArrives(i) ==
    /\ i \in 1..Len(posts)
    /\ SetStore(recordEvent(StoreState, posts[i]))
    /\ posts' = RemoveAt(posts, i)
    /\ UNCHANGED <<bus, busReceived, poller, detected, syncing, panel, storeRegistrations, agent,
                   providerVars, disk>>

vars == <<store, received, bus, busReceived, posts, poller, detected, syncing, panel, storeRegistrations, agent,
          configStore, registrations, isSaving, rendered, history, passes, saveResult, disk>>

(***************************************************************************)
(* SpecStore: the two event stores with their subscribers.  The server     *)
(* store and the browser bus live in different processes and share no      *)
(* state, so each is explored from the state in which the other is idle.   *)
(***************************************************************************)
StoreIdle == store.sequence = 0 /\ store.listeners = <<>>
BusIdle == bus.sequence = 0 /\ bus.listeners = <<>>

NextStore ==
    \/ \E t \in EventTypes : PostEvent(t, MaxSeq)
    \/ \E l \in Listeners : OnEvent(l)
    \/ \E l \in Listeners : Unsubscribe(l)

NextBus ==
    \/ \E t \in EventTypes, src \in {"human", "agent"} : Emit(t, src, MaxSeq)
    \/ \E l \in Listeners : OnTuningEvent(l)
    \/ \E l \in Listeners : BusUnsubscribe(l)

NextStores ==
    \/ BusIdle /\ NextStore
    \/ StoreIdle /\ NextBus

InitStores ==
    /\ InitStore
    /\ InitBus
    /\ InitProvider

SpecStore == InitStores /\ [][NextStores]_vars

(***************************************************************************)
(* SpecLog: a store whose log is about to reach MAX_EVENTS, read by a      *)
(* polling consumer.  The initial store is the one that Replayed calls of  *)
(* recordEvent leave behind on a fresh store without listeners.            *)
(***************************************************************************)
Replayed == MAX_EVENTS - 2

\* the log after Replayed calls of recordEvent on a fresh store
ReplayedLog ==
    [k \in 1..Replayed |->
        [type |-> "value.changed", sequence |-> k, payload |-> [id |-> "a"]]]

InitLog ==
    /\ store = [sequence |-> Replayed, events |-> ReplayedLog, listeners |-> <<>>,
                suggestions |-> <<>>]
    /\ received = [l \in Listeners |-> <<>>]
    /\ poller = [last |-> 0, seen |-> <<>>]
    /\ detected = NotCalled
    /\ syncing = [timer |-> FALSE, posts |-> <<>>]
    /\ panel = <<>>
    /\ storeRegistrations = <<>>
    /\ agent = [tool |-> "idle"]
    /\ InitBus
    /\ InitProvider

NextLog ==
    \/ \E t \in EventTypes : PostEvent(t, Replayed + MaxLog)
    \/ Poll

SpecLog == InitLog /\ [][NextLog]_vars

(***************************************************************************)
(* The provider with the dev server's update endpoint.  The counters of    *)
(* the program are unbounded; a specification stops starting operations    *)
(* once a counter has reached its bound.                                   *)
(***************************************************************************)
EmitRoom(max) == bus.sequence < max
HistoryRoom == Len(history.past) < MaxHistory
PassRoom(max) == Len(passes) < max

Edit(ids, keys, maxEmit) ==
    /\ EmitRoom(maxEmit)
    /\ HistoryRoom
    /\ \E id \in ids, key \in keys, value \in Values : updateValue(id, key, value)

Saving(ids, maxEmit, maxSaved, maxPasses) ==
    \/ EmitRoom(maxEmit) /\ PassRoom(maxPasses) /\ SaveAllStart
    \/ PassRoom(maxPasses) /\ \E id \in ids : SaveSectionStart(id)
    \/ \E i \in 1..maxPasses, writable \in BOOLEAN :
          (writable => store.sequence < maxSaved) /\ ServerUpdate(i, writable)
    \/ \E i \in 1..maxPasses : ResumeSaved(i)
    \/ \E i \in 1..maxPasses : ResumeFailed(i)

Init ==
    /\ InitStore
    /\ bus = [sequence |-> 0, listeners |-> <<"passive">>, assigned |-> <<>>, last |-> <<>>]
    /\ busReceived = [l \in Listeners |-> <<>>]
    /\ posts = <<>>
    /\ InitProvider

(***************************************************************************)
(* Spec: two components, their declared keys, every provider operation.    *)
(***************************************************************************)
Next ==
    \/ Render
    \/ EmitRoom(MaxEmit) /\ \E id \in Ids : Register(id)
    \/ EmitRoom(MaxEmit) /\ \E id \in Ids : Unregister(id)
    \/ Edit(Ids, DOMAIN Declared, MaxEmit)
    \/ EmitRoom(MaxEmit) /\ \E id \in Ids : ResetSection(id)
    \/ EmitRoom(MaxEmit) /\ ResetAll
    \/ Saving(Ids, MaxEmit, MaxSaved, MaxPasses)

Spec == Init /\ [][Next]_vars

(***************************************************************************)
(* SpecEdit: one component that mounts and unmounts, edited on declared    *)
(* and undeclared keys.                                                    *)
(***************************************************************************)
NextEdit ==
    \/ Render
    \/ EmitRoom(MaxEmit) /\ Register("a")
    \/ EmitRoom(MaxEmit) /\ Unregister("a")
    \/ Edit({"a"}, KeySet, MaxEmit)
    \/ EmitRoom(MaxEmit) /\ ResetSection("a")

SpecEdit == Init /\ [][NextEdit]_vars

(***************************************************************************)
(* SpecSave: editing and saving with both components mounted.  The initial *)
(* state is the one Spec reaches by Register("a"), Register("b"), Render.  *)
(***************************************************************************)
Mounted ==
    [i \in 1..2 |-> [id |-> IF i = 1 THEN "a" ELSE "b", originalConfig |-> Declared,
                     currentConfig |-> Declared, sourceConfig |-> Declared]]

InitSave ==
    /\ InitStore
    /\ bus = [sequence |-> 2, listeners |-> <<"passive">>, assigned |-> <<1, 2>>,
              last |-> <<[type |-> "registration.added", sequence |-> 2, source |-> "human",
                          payload |-> [id |-> "b", properties |-> Declared,
                                       sourceValues |-> Declared]]>>]
    /\ busReceived = [l \in Listeners |-> IF l = "passive" THEN <<1, 2>> ELSE <<>>]
    /\ posts = <<>>
    /\ configStore = [i \in Ids |-> Declared]
    /\ registrations = Mounted
    /\ isSaving = FALSE
    /\ rendered = [registrations |-> Mounted, isSaving |-> FALSE]
    /\ history = [past |-> <<>>, future |-> <<>>]
    /\ passes = <<>>
    /\ saveResult = [state |-> "none"]
    /\ disk = [i \in Ids |-> Declared]

NextSave ==
    \/ Render
    \/ Edit(Ids, DOMAIN Declared, MaxSaveEmit)
    \/ Saving(Ids, MaxSaveEmit, MaxSaveSaved, MaxSavePasses)

SpecSave == InitSave /\ [][NextSave]_vars

(***************************************************************************)
(* SpecHistory: one component edited, reset, undone and redone.            *)
(***************************************************************************)
NextHistory ==
    \/ Render
    \/ EmitRoom(MaxHistoryEmit) /\ Register("a")
    \/ EmitRoom(MaxHistoryEmit) /\ Unregister("a")
    \/ /\ EmitRoom(MaxHistoryEmit)
       /\ Len(history.past) < MaxEntries
       /\ \E key \in KeySet, value \in Values : updateValue("a", key, value)
    \/ EmitRoom(MaxHistoryEmit) /\ ResetSection("a")
    \/ Undo
    \/ Redo

SpecHistory == Init /\ [][NextHistory]_vars

(***************************************************************************)
(* SpecTools: two mounted components are edited in the browser, the sync   *)
(* effect copies them to the server and the agent calls tangent_save_all.  *)
(***************************************************************************)
NextTools ==
    \/ Render
    \/ Edit(Ids, KeySet, MaxToolEmit)
    \/ Sync
    \/ ToolSaveAll
    \/ \E writable \in BOOLEAN :
          (writable => store.sequence < MaxToolSaved) /\ ToolSaveAllPost(writable)
    \/ ToolSaveAllReturn

SpecTools == InitSave /\ [][NextTools]_vars

(***************************************************************************)
(* SpecUpdate: the agent calls tangent_update_value while the browser      *)
(* edits, mounts and unmounts component a and syncs it to the server.      *)
(***************************************************************************)
NextUpdate ==
    \/ Render
    \/ EmitRoom(MaxUpdateEmit) /\ Register("a")
    \/ EmitRoom(MaxUpdateEmit) /\ Unregister("a")
    \/ Edit({"a"}, KeySet, MaxUpdateEmit)
    \/ Sync
    \/ \E id \in Ids, key \in KeySet, value \in Values : ToolUpdateValue(id, key, value)
    \/ store.sequence < MaxUpdatePosts /\ ToolUpdateValuePost

SpecUpdate == Init /\ [][NextUpdate]_vars

(***************************************************************************)
(* SpecWatch: the agent calls tangent_watch_changes while events are       *)
(* posted to the server's log.                                             *)
(***************************************************************************)
NextWatch ==
    \/ \E t \in EventTypes : PostEvent(t, MaxWatchEvents)
    \/ \E timeoutSeconds \in Timeouts, sinceSequence \in 0..1 :
          ToolWatch(timeoutSeconds, sinceSequence)
    \/ WatchWhile
    \/ \E up \in BOOLEAN : WatchHealth(up)
    \/ WatchEvents
    \/ WatchSleep
    \/ WatchWaiting /\ agent.elapsed < MaxClock

SpecWatch == InitStores /\ [][NextWatch]_vars

(***************************************************************************)
(* SpecForward: component a is mounted and edited; every event of the      *)
(* browser's bus is forwarded to the server's log by a request of its own, *)
(* and the sync effect copies the registrations to the server's table.     *)
(***************************************************************************)
InitForward ==
    /\ InitStore
    /\ bus = [sequence |-> 0, listeners |-> <<"forward">>, assigned |-> <<>>, last |-> <<>>]
    /\ busReceived = [l \in Listeners |-> <<>>]
    /\ posts = <<>>
    /\ InitProvider

NextForward ==
    \/ Render
    \/ EmitRoom(MaxForwardEmit) /\ Register("a")
    \/ Edit({"a"}, DOMAIN Declared, MaxForwardEmit)
    \/ EmitRoom(MaxForwardEmit) /\ ResetSection("a")
    \/ Sync
    \/ \E i \in 1..MaxForwardEmit : PostArrives(i)

SpecForward == InitForward /\ [][NextForward]_vars

(***************************************************************************)
(* SpecReset: two components mount, are edited, saved and reset, one by    *)
(* one and all at once; the forwarding listener shows every event emitted. *)
(***************************************************************************)
NextReset ==
    \/ Render
    \/ EmitRoom(MaxResetEmit) /\ \E id \in Ids : Register(id)
    \/ Edit(Ids, DOMAIN Declared, MaxResetEmit)
    \/ EmitRoom(MaxResetEmit) /\ \E id \in Ids : ResetSection(id)
    \/ EmitRoom(MaxResetEmit) /\ ResetAll
    \/ Saving(Ids, MaxResetEmit, MaxResetSaved, MaxResetPasses)

SpecReset == InitForward /\ [][NextReset]_vars

(***************************************************************************)
(* SpecSync: component a is mounted and edited, the sync effect posts its  *)
(* registrations, and other clients post bodies of every kind to the sync  *)
(* endpoint.                                                               *)
(***************************************************************************)
SyncLists ==
    {syncData(rendered.registrations),
     Append(syncData(rendered.registrations), Null),
     <<Null>> \o syncData(rendered.registrations)}

NextSync ==
    \/ Render
    \/ EmitRoom(MaxSyncEmit) /\ Register("a")
    \/ EmitRoom(MaxSyncEmit) /\ Unregister("a")
    \/ Edit({"a"}, KeySet, MaxSyncEmit)
    \/ Sync
    \/ \E kind \in BodyKinds \ {"array"} : PostSync([kind |-> kind])
    \/ \E list \in SyncLists : PostSync([kind |-> "array", registrations |-> list])

SpecSync == Init /\ [][NextSync]_vars

(***************************************************************************)
(* SpecPersist: both components are mounted, edited and saved by saveAll   *)
(* and saveSection, while the forwarding listener posts the provider's     *)
(* events to the server's log.                                             *)
(***************************************************************************)
InitPersist ==
    /\ InitStore
    /\ bus = [sequence |-> 2, listeners |-> <<"forward">>, assigned |-> <<1, 2>>,
              last |-> <<[type |-> "registration.added", sequence |-> 2, source |-> "human",
                          payload |-> [id |-> "b", properties |-> Declared,
                                       sourceValues |-> Declared]]>>]
    /\ busReceived = [l \in Listeners |-> <<>>]
    /\ posts = <<>>
    /\ configStore = [i \in Ids |-> Declared]
    /\ registrations = Mounted
    /\ isSaving = FALSE
    /\ rendered = [registrations |-> Mounted, isSaving |-> FALSE]
    /\ history = [past |-> <<>>, future |-> <<>>]
    /\ passes = <<>>
    /\ saveResult = [state |-> "none"]
    /\ disk = [i \in Ids |-> Declared]

NextPersist ==
    \/ Render
    \/ Edit(Ids, DOMAIN Declared, MaxPersistEmit)
    \/ Saving(Ids, MaxPersistEmit, MaxPersistSaved, MaxPersistPasses)
    \/ \E i \in 1..MaxPersistEmit : PostArrives(i)

SpecPersist == InitPersist /\ [][NextPersist]_vars

(***************************************************************************)
(* SpecLive: component a mounts and is edited a bounded number of times;   *)
(* every render re-arms the sync timer, the timer posts the registrations  *)
(* and the posts arrive in any order.  Renders, the timer and the arrival  *)
(* of each request in flight are weakly fair: React renders a changed      *)
(* state, a timer that is not cleared fires, a request sent is delivered.  *)
(* SpecLiveInOrder is the same with the requests arriving in the order in  *)
(* which they were sent.                                                   *)
(***************************************************************************)
SyncTimerInRoom == Len(syncing.posts) < MaxLivePosts /\ SyncTimer

NextLive ==
    \/ Commit
    \/ EmitRoom(MaxLiveEmit) /\ Register("a")
    \/ Edit({"a"}, DOMAIN Declared, MaxLiveEmit)
    \/ SyncTimerInRoom
    \/ \E i \in 1..MaxLivePosts : SyncArrives(i)

SpecLive ==
    /\ Init
    /\ [][NextLive]_vars
    /\ WF_vars(Commit)
    /\ WF_vars(SyncTimerInRoom)
    /\ \A i \in 1..MaxLivePosts : WF_vars(SyncArrives(i))

NextLiveInOrder ==
    \/ Commit
    \/ EmitRoom(MaxLiveEmit) /\ Register("a")
    \/ Edit({"a"}, DOMAIN Declared, MaxLiveEmit)
    \/ SyncTimerInRoom
    \/ SyncArrives(1)

SpecLiveInOrder ==
    /\ Init
    /\ [][NextLiveInOrder]_vars
    /\ WF_vars(Commit)
    /\ WF_vars(SyncTimerInRoom)
    /\ WF_vars(SyncArrives(1))

(***************************************************************************)
(* SpecDetect: detectValueType is applied to every kind of value and key.  *)
(***************************************************************************)
InitDetect ==
    /\ store = [sequence |-> 0, listeners |-> <<>>, events |-> <<>>, suggestions |-> <<>>]
    /\ received = [l \in Listeners |-> <<>>]
    /\ poller = [last |-> 0, seen |-> <<>>]
    /\ syncing = [timer |-> FALSE, posts |-> <<>>]
    /\ detected \in {[value |-> v, key |-> k, result |-> "none"] :
                        v \in DetectValues, k \in DetectKeys}
    /\ panel = <<>>
    /\ storeRegistrations = <<>>
    /\ agent = [tool |-> "idle"]
    /\ bus = [sequence |-> 0, listeners |-> <<>>, assigned |-> <<>>, last |-> <<>>]
    /\ busReceived = [l \in Listeners |-> <<>>]
    /\ posts = <<>>
    /\ InitProvider

NextDetect == Detect

SpecDetect == InitDetect /\ [][NextDetect]_vars

(***************************************************************************)
(* SpecAccept: suggestions for component a are posted and accepted, in the *)
(* panel and through the store, while the provider's events are forwarded  *)
(* to the server's log.                                                    *)
(***************************************************************************)
NextAccept ==
    \/ Render
    \/ EmitRoom(MaxAgentEmit) /\ Register("a")
    \/ /\ Len(store.suggestions) < MaxSuggestions
       /\ store.sequence < MaxAgentEvents
       /\ \E key \in KeySet, value \in Values : PostSuggestion("a", key, value)
    \/ /\ store.sequence < MaxAgentEvents
       /\ \E id \in 1..MaxSuggestions : UpdateSuggestionStatus(id, "accepted")
    \/ /\ EmitRoom(MaxAgentEmit)
       /\ HistoryRoom
       /\ Len(panel) < MaxRequests
       /\ \E i \in 1..MaxSuggestions : HandleAccept(i)
    \/ PatchRequest
    \/ \E i \in 1..MaxAgentEmit : PostArrives(i)

SpecAccept == InitForward /\ [][NextAccept]_vars

(***************************************************************************)
(* SpecAgent: the agent's side.  Suggestions are posted, resolved through  *)
(* the store and through the suggestions panel of a page with one          *)
(* component, and browser events are forwarded to the server's log.        *)
(***************************************************************************)
NextAgent ==
    \/ Render
    \/ EmitRoom(MaxAgentEmit) /\ Register("a")
    \/ /\ Len(store.suggestions) < MaxSuggestions
       /\ store.sequence < MaxAgentEvents
       /\ \E t \in Targets, key \in KeySet, value \in Values : PostSuggestion(t, key, value)
    \/ /\ store.sequence < MaxAgentEvents
       /\ \E id \in 1..(MaxSuggestions + 1), status \in {"accepted", "rejected"} :
             UpdateSuggestionStatus(id, status)
    \/ /\ EmitRoom(MaxAgentEmit)
       /\ HistoryRoom
       /\ Len(panel) < MaxRequests
       /\ \E i \in 1..MaxSuggestions : HandleAccept(i)
    \/ /\ Len(panel) < MaxRequests
       /\ \E i \in 1..MaxSuggestions : HandleReject(i)
    \/ PatchRequest
    \/ /\ store.sequence < MaxAgentEvents
       /\ \E src \in {"human", "agent"} : PostTuningEvent("value.changed", src)

SpecAgent == Init /\ [][NextAgent]_vars

(***************************************************************************)
(* Claims                                                                  *)
(***************************************************************************)
StrictlyIncreasing(s) == \A i \in 1..(Len(s) - 1) : s[i] < s[i + 1]

\* C1: in each event store the k-th appended event carries sequence number
\* k: the server log holds 1..N in order (N = store.sequence) and the events
\* returned by emitTuningEvent are numbered 1..N in order (N = bus.sequence),
\* whatever the listeners do.
C1_SequenceIsAppendIndex ==
    /\ Len(store.events) = IF store.sequence < MAX_EVENTS THEN store.sequence ELSE MAX_EVENTS
    /\ \A k \in 1..Len(store.events) :
          store.events[k].sequence = store.sequence - Len(store.events) + k
    /\ Len(bus.assigned) = bus.sequence
    /\ \A k \in 1..Len(bus.assigned) : bus.assigned[k] = k

C1_Witness ==
    /\ store.sequence >= 3
    /\ Len(received["faulty"]) > 0
    /\ Len(received["echo"]) > 1
    /\ \E i, j \in 1..Len(store.events) : store.events[i].type # store.events[j].type

\* C2: every subscriber of the server store observes the events in
\* increasing sequence order.
C2_SubscribersSeeAppendOrder ==
    \A l \in Listeners : StrictlyIncreasing(received[l])

\* C2 (delivery before return): once recordEvent has returned, every
\* listener still subscribed that was subscribed before the call has been
\* handed the new event.
C2_DeliveredBeforeReturn ==
    [][\A l \in Listeners :
          (store'.sequence > store.sequence /\ InSeq(store.listeners, l)
              /\ InSeq(store'.listeners, l))
          => \A n \in (store.sequence + 1)..store'.sequence :
                \E i \in 1..Len(received'[l]) : received'[l][i] = n]_vars

\* C3: getEvents(s) returns the retained events with sequence > s in
\* strictly ascending order, and a consumer that polls with the last
\* sequence it has seen has seen every event up to that sequence except
\* those already evicted from the ring buffer when it polled.
C3_PollSeesAllRetained ==
    /\ StrictlyIncreasing(poller.seen)
    /\ poller.seen # <<>> => Last(poller.seen) = poller.last
    /\ \A i \in 1..Len(poller.seen) :
          LET prev == IF i = 1 THEN 0 ELSE poller.seen[i - 1]
          IN  poller.seen[i] # prev + 1 => poller.seen[i] - 1 <= store.sequence - MAX_EVENTS
    /\ LET batch == getEvents(poller.last)
       IN  /\ \A i \in 1..Len(batch) : batch[i].sequence > poller.last
           /\ \A i \in 1..(Len(batch) - 1) : batch[i].sequence < batch[i + 1].sequence
           /\ Len(batch) = Cardinality({e \in {store.events[i] : i \in 1..Len(store.events)} :
                                           e.sequence > poller.last})

C3_Witness ==
    /\ poller.seen # <<>>
    /\ poller.seen[1] > 1
    /\ Len(poller.seen) > 1

DirtyIn(m, id, key) ==
    MapHas(m, id) /\ Get(MapGet(m, id).currentConfig, key) # Get(MapGet(m, id).sourceConfig, key)

\* C4: updateValue(id, key, v) called while the key's current value is
\* already v numbers no event on the bus and pushes no history entry.
C4_NoOpUpdateIsSilent ==
    [][\A id \in Ids, key \in DOMAIN Declared, value \in Values :
          (CurrentValue(id, key) = value /\ updateValue(id, key, value))
          => (bus'.sequence = bus.sequence /\ history' = history)]_vars

\* C5: updateValue on an id that is not registered, or on a key the
\* registration did not declare, changes nothing: not the registrations, not
\* the stored config, not the history, not the bus.
C5_UnknownTargetChangesNothing ==
    [][\A id \in Ids, key \in KeySet, value \in Values :
          ((~MapHas(registrations, id)
               \/ key \notin DOMAIN MapGet(registrations, id).originalConfig)
            /\ updateValue(id, key, value))
          => UNCHANGED <<configStore, registrations, history, bus>>]_vars

\* C6: when a persist of a saveAll pass fails, the pass has still attempted
\* every other change (the failed one is its last), and the keys it persisted
\* before are no longer dirty when it ends.
C6_SaveAllSavesEachPairIndependently ==
    [][\A i \in 1..Len(passes) :
          (passes[i].kind = "all" /\ ResumeFailed(i))
          => /\ passes[i].at = Len(passes[i].changes)
             /\ \A n \in 1..(passes[i].at - 1) :
                   ~DirtyIn(registrations', passes[i].changes[n].id,
                            passes[i].changes[n].key)]_vars

\* C7: at most one save pass is in flight at any time.
C7_AtMostOneSavePass == Len(passes) <= 1

\* C8 (state): a failed persist writes nothing and records no value.saved
\* event on the server; the pass that awaited it ends, leaving the
\* registrations (so the key's source value and its dirtiness) and the bus
\* as they were, and no pass is left to repeat the request.
C8_FailedPersistLeavesKeyDirty ==
    [][\A i \in 1..Len(passes) :
          /\ ((\E w \in BOOLEAN : ServerUpdate(i, w)) /\ passes'[i].await = "failed")
                => UNCHANGED <<store, disk>>
          /\ ResumeFailed(i)
                => /\ UNCHANGED <<registrations, bus, store, disk>>
                   /\ passes' = RemoveAt(passes, i)
                   /\ DirtyIn(registrations', passes[i].changes[passes[i].at].id,
                              passes[i].changes[passes[i].at].key)
                       \/ ~DirtyIn(registrations, passes[i].changes[passes[i].at].id,
                                   passes[i].changes[passes[i].at].key)]_vars

\* C8: when the persist of a key fails, the state is left as C8 (state) says
\* and the failure is reported to the caller of the save: the call does not
\* end as a call that saved everything ends.
C8_FailedPersistIsReported ==
    [][\A i \in 1..Len(passes) :
          ResumeFailed(i)
          => /\ UNCHANGED <<registrations, bus, store, disk>>
             /\ passes' = RemoveAt(passes, i)
             /\ saveResult' # Fulfilled]_vars

\* C9: an updateValue that sets a key of a registration to a value other
\* than its source value leaves the registration with unsaved changes; when
\* a save pass ends with every persist successful, each key it saved whose
\* current value is still the saved one has that value as source value, and
\* its registration has no unsaved changes.
C9_DirtyRoundTrip ==
    [][/\ \A id \in Ids, key \in KeySet, value \in Values :
             (updateValue(id, key, value) /\ MapHas(registrations, id)
                /\ value # SourceValue(id, key))
             => hasUnsavedChanges(MapGet(registrations', id))
       /\ \A i \in 1..Len(passes) :
             (ResumeSaved(i) /\ passes[i].at = Len(passes[i].changes))
             => \A n \in 1..Len(passes[i].changes) :
                   LET c == passes[i].changes[n]
                   IN  (MapHas(registrations, c.id) /\ CurrentValue(c.id, c.key) = c.newValue)
                       => /\ Get(MapGet(registrations', c.id).sourceConfig, c.key) = c.newValue
                          /\ ~hasUnsavedChanges(MapGet(registrations', c.id))]_vars

C9_Witness ==
    /\ passes = <<>>
    /\ saveResult = Fulfilled
    /\ CurrentValue("a", "padding") = 80
    /\ SourceValue("a", "padding") = 80
    /\ disk["a"]["padding"] = 80
    /\ bus.last # <<>>
    /\ bus.last[1].type = "value.saved"
    /\ Len(history.past) = 1

\* C10: resetSection(id), alone or as a step of resetAll, leaves every key of
\* the registration with its source value as current value and leaves the
\* source values, the last saved ones, as they were.
C10_ResetRestoresSource ==
    [][\A id \in Ids :
          ((ResetSection(id) \/ (ResetAll /\ MapHas(rendered.registrations, id)))
             /\ MapHas(registrations, id))
          => /\ MapGet(registrations', id).currentConfig = MapGet(registrations, id).sourceConfig
             /\ MapGet(registrations', id).sourceConfig = MapGet(registrations, id).sourceConfig]_vars

\* register 60, save 80, update to 60, reset: the current value is 80
C10_Witness ==
    /\ bus.last # <<>>
    /\ bus.last[1].type = "value.reset"
    /\ bus.last[1].payload.id = "a"
    /\ Declared["padding"] = 60
    /\ disk["a"]["padding"] = 80
    /\ MapHas(rendered.registrations, "a")
    /\ MapGet(rendered.registrations, "a").currentConfig["padding"] = 60
    /\ CurrentValue("a", "padding") = 80
    /\ SourceValue("a", "padding") = 80

\* C11: register(id) for an id that is already registered, whose source
\* values are the values saved in its file, leaves the source values as they
\* were.
C11_ReRegisterKeepsSource ==
    [][\A id \in Ids :
          (Register(id) /\ MapHas(registrations, id)
             /\ MapGet(registrations, id).sourceConfig = disk[id])
          => MapGet(registrations', id).sourceConfig = MapGet(registrations, id).sourceConfig]_vars

C13_ResolvedExactlyOnce ==
    [][\A id \in 1..(MaxSuggestions + 1), status \in {"accepted", "rejected"} :
          (UpdateSuggestionStatus(id, status)
             /\ (FindSuggestion(store, id) = 0
                   \/ store.suggestions[FindSuggestion(store, id)].status # "pending"))
          => /\ store'.suggestions = store.suggestions
             /\ store'.events = store.events
             /\ store'.sequence = store.sequence]_vars

\* C14: accepting a pending suggestion in the panel emits exactly one
\* value.changed event whose newValue is the suggested value, and appends
\* exactly one suggestion.accepted event to the server's log, whatever the
\* target key's value is at that moment.
C14_AcceptEmitsBothEvents ==
    [][/\ \A i \in 1..MaxSuggestions :
          HandleAccept(i)
          => /\ Len(bus'.assigned) = Len(bus.assigned) + 1
             /\ bus'.last[1].type = "value.changed"
             /\ bus'.last[1].payload.newValue = store.suggestions[i].suggestedValue
       /\ (PatchRequest /\ Head(panel).status = "accepted")
          => /\ Len(store'.events) = Len(store.events) + 1
             /\ Last(store'.events).type = "suggestion.accepted"]_vars

\* C15: rejecting a pending suggestion in the panel changes no registration,
\* no stored config, no history entry and emits nothing on the browser's bus;
\* when the server has answered the request the suggestion's status is
\* rejected and a suggestion.rejected event is the last of the log.
C15_RejectMarksRejected ==
    [][/\ \A i \in 1..MaxSuggestions :
             HandleReject(i) => UNCHANGED <<registrations, configStore, history, bus, disk>>
       /\ (PatchRequest /\ Head(panel).status = "rejected"
             /\ store.suggestions[FindSuggestion(store, Head(panel).id)].status = "pending")
          => /\ store'.suggestions[FindSuggestion(store, Head(panel).id)].status = "rejected"
             /\ Len(store'.events) = Len(store.events) + 1
             /\ Last(store'.events).type = "suggestion.rejected"
             /\ UNCHANGED <<registrations, configStore, history, bus, disk>>]_vars

\* C15, through the store alone: updateSuggestionStatus(id, "rejected") on a
\* pending suggestion sets its status to rejected, appends a
\* suggestion.rejected event and changes nothing of the provider.
C15_StoreRejectChangesNoValue ==
    [][\A i \in 1..MaxSuggestions :
          (i <= Len(store.suggestions) /\ store.suggestions[i].status = "pending"
             /\ UpdateSuggestionStatus(store.suggestions[i].id, "rejected"))
          => /\ store'.suggestions[i].status = "rejected"
             /\ Last(store'.events).type = "suggestion.rejected"
             /\ UNCHANGED <<registrations, configStore, history, bus, disk>>]_vars

\* C16: a suggestion whose target id is not registered, or whose key the
\* target does not have, is not stored and appends no event; a suggestion
\* for a key of a registered target is stored as pending with exactly one
\* suggestion.created event.
C16_SuggestionTargetIsValidated ==
    [][\A t \in Targets, key \in KeySet, value \in Values :
          PostSuggestion(t, key, value)
          => IF MapHas(registrations, t)
                  /\ key \in DOMAIN MapGet(registrations, t).currentConfig
             THEN /\ Len(store'.suggestions) = Len(store.suggestions) + 1
                  /\ Last(store'.suggestions).status = "pending"
                  /\ Len(store'.events) = Len(store.events) + 1
                  /\ Last(store'.events).type = "suggestion.created"
             ELSE /\ store'.suggestions = store.suggestions
                  /\ store'.events = store.events]_vars

\* C17: every event in the server's log carries the origin of its writer,
\* human or agent.
C17_EveryEventHasOrigin ==
    \A i \in 1..Len(store.events) :
        /\ "source" \in DOMAIN store.events[i]
        /\ store.events[i].source \in {"human", "agent"}

\* C18: an event of the log reads the same, payload included, after every
\* later step as it read when it was appended.
C18_EventsAreImmutable ==
    [][\A i \in 1..Len(store.events) :
          i <= Len(store'.events)
          => /\ store'.events[i] = store.events[i]
             /\ Payload(store', store'.events[i]) = Payload(store, store.events[i])]_vars

\* C19: when a subscribed listener throws, a call of recordEvent or of
\* emitTuningEvent still numbers and appends its events, and every other
\* listener subscribed before the call is still subscribed after it and has
\* been handed each of these events; so it is for every later call.
C19_ThrowingListenerIsIsolated ==
    [][/\ (store'.sequence > store.sequence
             /\ \E f \in Listeners : Throws(f) /\ InSeq(store.listeners, f))
          => /\ \A n \in (store.sequence + 1)..store'.sequence :
                   \E i \in 1..Len(store'.events) : store'.events[i].sequence = n
             /\ \A l \in Listeners :
                   (~Throws(l) /\ InSeq(store.listeners, l))
                   => /\ InSeq(store'.listeners, l)
                      /\ \A n \in (store.sequence + 1)..store'.sequence :
                            \E i \in 1..Len(received'[l]) : received'[l][i] = n
       /\ (bus'.sequence > bus.sequence
             /\ \E f \in Listeners : Throws(f) /\ InSeq(bus.listeners, f))
          => /\ \A n \in (bus.sequence + 1)..bus'.sequence :
                   \E i \in 1..Len(bus'.assigned) : bus'.assigned[i] = n
             /\ \A l \in Listeners :
                   (~Throws(l) /\ InSeq(bus.listeners, l))
                   => /\ InSeq(bus'.listeners, l)
                      /\ \A n \in (bus.sequence + 1)..bus'.sequence :
                            \E i \in 1..Len(busReceived'[l]) : busReceived'[l][i] = n]_vars

\* the throwing listener was called before "passive" for event 1 and removed;
\* "passive" has received that event and the next one
C19_Witness ==
    /\ received["faulty"] = <<1>>
    /\ received["passive"] = <<1, 2>>
    /\ store.listeners = <<"passive">>
    /\ store.sequence = 2

\* C20: a listener that throws is no longer subscribed once the call that
\* delivered the event to it has returned, on the server's store and on the
\* browser's bus alike.
C20_ThrowingListenerIsRemoved ==
    [][\A l \in Listeners :
          Throws(l)
          => /\ received'[l] # received[l] => ~InSeq(store'.listeners, l)
             /\ busReceived'[l] # busReceived[l] => ~InSeq(bus'.listeners, l)]_vars

\* C20, server side only: the store deletes a throwing listener.
C20_StoreRemovesThrowingListener ==
    [][\A l \in Listeners :
          (Throws(l) /\ received'[l] # received[l]) => ~InSeq(store'.listeners, l)]_vars

\* C21: an updateValue that takes a key's current value from a to b, for a
\* component the panel shows, leaves
\* the entry a -> b on top of the undo stack; undo with an entry sets its
\* key's current value to the entry's old value and makes redo available;
\* redo sets it to the entry's new value; undo without an entry and redo
\* without an undone entry change no value.
C21_UndoRedoSymmetry ==
    [][/\ \A key \in KeySet, value \in Values :
             (updateValue("a", key, value) /\ MapHas(registrations, "a")
                /\ MapHas(rendered.registrations, "a")
                /\ CurrentValue("a", key) # undefined /\ CurrentValue("a", key) # value)
             => /\ history'.past # <<>>
                /\ Last(history'.past).key = key
                /\ Last(history'.past).oldValue = CurrentValue("a", key)
                /\ Last(history'.past).newValue = value
       /\ (Undo /\ history.past # <<>> /\ MapHas(registrations, "a"))
          => /\ MapGet(registrations', "a").currentConfig[Last(history.past).key]
                  = Last(history.past).oldValue
             /\ history'.future # <<>>
       /\ (Redo /\ history.future # <<>> /\ MapHas(registrations, "a"))
          => MapGet(registrations', "a").currentConfig[Last(history.future).key]
                  = Last(history.future).newValue
       /\ (Undo /\ history.past = <<>>) => UNCHANGED <<registrations, configStore>>
       /\ (Redo /\ history.future = <<>>) => UNCHANGED <<registrations, configStore>>]_vars

\* C21, for edits made by the render that shows the current registrations:
\* the same round trip.
C21_UndoRedoSymmetryWhenRendered ==
    [][/\ \A key \in KeySet, value \in Values :
             (updateValue("a", key, value) /\ MapHas(registrations, "a")
                /\ rendered.registrations = registrations
                /\ CurrentValue("a", key) # undefined /\ CurrentValue("a", key) # value)
             => /\ history'.past # <<>>
                /\ Last(history'.past).key = key
                /\ Last(history'.past).oldValue = CurrentValue("a", key)
                /\ Last(history'.past).newValue = value
       /\ (Undo /\ history.past # <<>> /\ MapHas(registrations, "a"))
          => /\ MapGet(registrations', "a").currentConfig[Last(history.past).key]
                  = Last(history.past).oldValue
             /\ Last(history'.future) = Last(history.past)
       /\ (Redo /\ history.future # <<>> /\ MapHas(registrations, "a"))
          => MapGet(registrations', "a").currentConfig[Last(history.future).key]
                  = Last(history.future).newValue]_vars

\* C22: an updateValue that changes a value of the registration leaves the
\* redo stack empty, so that a following redo finds no entry.
C22_EditClearsRedo ==
    [][\A key \in KeySet, value \in Values :
          (updateValue("a", key, value) /\ registrations' # registrations)
          => history'.future = <<>>]_vars

\* C22, for an edit of a declared key made by the render that shows the
\* current registrations.
C22_EditClearsRedoWhenRendered ==
    [][\A key \in DOMAIN Declared, value \in Values :
          (updateValue("a", key, value) /\ registrations' # registrations
             /\ rendered.registrations = registrations)
          => history'.future = <<>>]_vars

\* the properties of the server's table that have a source value and a
\* value different from it, in registrations reported with unsaved changes
RECURSIVE DirtyKeys(_)
DirtyKeys(regs) ==
    IF regs = <<>> THEN {}
    ELSE {<<Head(regs).id, Head(regs).properties[j].key>> :
             j \in {n \in 1..Len(Head(regs).properties) :
                      /\ Head(regs).hasUnsavedChanges
                      /\ Head(regs).properties[n].sourceValue # undefined
                      /\ Head(regs).properties[n].sourceValue
                            # Head(regs).properties[n].value}}
         \cup DirtyKeys(Tail(regs))

C24_ToolUpdateIsApplied ==
    [][(ToolUpdateValuePost
          /\ PropertyValue(getRegistration(storeRegistrations, agent.id)[1], agent.key)
                # undefined)
       => /\ \E i \in 1..Len(store'.events) :
                /\ store'.events[i].type = "value.changed"
                /\ store'.events[i].payload.id = agent.id
                /\ store'.events[i].payload.key = agent.key
                /\ store'.events[i].payload.newValue = agent.value
          /\ PropertyValue(getRegistration(storeRegistrations', agent.id)[1], agent.key)
                = agent.value
          /\ MapGet(registrations', agent.id).currentConfig[agent.key] = agent.value]_vars

\* C24, the log alone: the value.changed event of the tool is the last
\* event of the server's log when the tool returns.
C24_ToolUpdateIsLogged ==
    [][ToolUpdateValuePost
       => /\ Last(store'.events).type = "value.changed"
          /\ Last(store'.events).payload.newValue = agent.value]_vars

\* C25: the server's log never holds more than MAX_EVENTS events; the
\* events it holds are the most recently appended ones: their sequence
\* numbers are consecutive and end with the last number assigned.
C25_LogKeepsNewestEvents ==
    /\ Len(store.events) <= MAX_EVENTS
    /\ Len(store.events) = IF store.sequence < MAX_EVENTS THEN store.sequence ELSE MAX_EVENTS
    /\ \A i \in 1..Len(store.events) :
          store.events[i].sequence = store.sequence - Len(store.events) + i

\* the cap has been exceeded by more than one event
C25_Witness ==
    /\ Len(store.events) = MAX_EVENTS
    /\ store.events[1].sequence > 2
    /\ store.sequence > MAX_EVENTS + 1

\* C26: a call of tangent_watch_changes is never still waiting later than
\* its timeout, which is at most WatchCap seconds, plus one poll interval;
\* and a poll that is answered while the log holds events after
\* sinceSequence returns these events.
C26_WatchReturnsInTime ==
    [][/\ agent'.tool = "tangent_watch_changes"
             => agent'.elapsed <= agent'.timeout + pollInterval
       /\ (WatchEvents /\ getEvents(agent.since) # <<>>)
             => /\ agent'.tool = "returned"
                /\ agent'.events = getEvents(agent.since)]_vars

\* C26, the wait alone.
C26_WatchWaitIsBounded ==
    agent.tool = "tangent_watch_changes" => agent.elapsed <= WatchCap + pollInterval

\* C26, when every request is answered within the second it was sent in:
\* the tool is not waiting any more once its timeout has elapsed.
C26_WatchLoopEndsAtTimeout ==
    [][(agent.tool = "tangent_watch_changes" /\ agent.at = "while"
          /\ agent.elapsed >= agent.timeout)
       => (WatchWhile => agent'.tool = "returned")]_vars

\* C27: unregister in the browser and the replacement of the server's table
\* by syncRegistrations leave the server's log as it was: getEvents returns
\* the same events with the same sequence numbers as before.
C27_RemovalKeepsEvents ==
    [][(Sync \/ Unregister("a"))
       => /\ store'.events = store.events
          /\ store'.sequence = store.sequence
          /\ \A since \in 0..MaxUpdatePosts : getEvents(since)' = getEvents(since)]_vars

\* the log holds an event for component a, posted while a was in the
\* server's table; a has been unregistered since and the table replaced by
\* an empty one
C27_Witness ==
    /\ store.events # <<>>
    /\ store.events[1].payload.id = "a"
    /\ storeRegistrations = <<>>
    /\ ~MapHas(registrations, "a")
    /\ bus.last # <<>>
    /\ bus.last[1].type = "registration.removed"

\* C28: a key whose current value equals its source value has the declared
\* value or the value last written to its file, in every state the
\* interleavings of edits with save passes in flight lead to.
C28_CleanMeansPersisted ==
    \A i \in 1..Len(registrations) :
        \A key \in DOMAIN registrations[i].currentConfig :
            registrations[i].currentConfig[key] = Get(registrations[i].sourceConfig, key)
            => \/ registrations[i].currentConfig[key] = Get(Declared, key)
               \/ registrations[i].currentConfig[key] = Get(disk[registrations[i].id], key)

\* the value.changed events of the server's log for (id, key), oldest first
ChangesInLog(id, key) ==
    SelectSeq(store.events,
              LAMBDA e : e.type = "value.changed" /\ e.payload.id = id /\ e.payload.key = key)

\* C29: whenever the server's log holds a value.changed event for (id, key),
\* the server's table has the registration and its value of the key is the
\* newValue of the latest of these events.
C29_TableMatchesLog ==
    \A id \in Ids, key \in KeySet :
        ChangesInLog(id, key) # <<>>
        => /\ getRegistration(storeRegistrations, id) # <<>>
           /\ PropertyValue(getRegistration(storeRegistrations, id)[1], key)
                 = Last(ChangesInLog(id, key)).payload.newValue

\* C30: the forwarding request that reaches the server is the oldest one in
\* flight, so that the server numbers the browser's events in the order in
\* which the browser's bus numbered them.
C30_ForwardedInOrder ==
    [][\A i \in 1..MaxForwardEmit :
          PostArrives(i)
          => \A j \in 1..Len(posts) : j # i => posts[j].sequence > posts[i].sequence]_vars

\* the log holds a value.changed event for the suggestion's target, key and
\* suggested value before the suggestion.accepted event of the suggestion
AppliedBeforeAccepted(s) ==
    \E j, k \in 1..Len(store.events) :
        /\ j < k
        /\ store.events[j].type = "value.changed"
        /\ store.events[j].payload.id = s.targetId
        /\ store.events[j].payload.key = s.key
        /\ store.events[j].payload.newValue = s.suggestedValue
        /\ store.events[k].type = "suggestion.accepted"
        /\ store.events[k].payload.ref = s.id

\* C31: a suggestion whose status is accepted had its value applied first:
\* the target's value was set to the suggested value, and the value.changed
\* event of that update precedes the suggestion.accepted event in the
\* server's log.
C31_ValueAppliedBeforeAccepted ==
    \A i \in 1..Len(store.suggestions) :
        store.suggestions[i].status = "accepted"
        => AppliedBeforeAccepted(store.suggestions[i])

\* C31, in the panel: when the request that marks a suggestion as accepted
\* is sent, updateValue has been called with the suggested value.
C31_PanelAppliesBeforeRequest ==
    [][\A i \in 1..MaxSuggestions :
          HandleAccept(i)
          => LET s == store.suggestions[i]
             IN  /\ Last(panel') = [id |-> s.id, status |-> "accepted"]
                 /\ MapHas(registrations, s.targetId)
                    => CurrentValue(s.targetId, s.key)' = s.suggestedValue]_vars

\* a step changes the current value of a key of a registration that stays
\* in the table
ValueChanges(id, key) ==
    /\ MapHas(registrations, id)
    /\ MapHas(registrations', id)
    /\ CurrentValue(id, key)' # CurrentValue(id, key)

\* C32: when updateValue, a reset, undo or redo changes the current value of
\* a key, the same step emits a value.changed or a value.reset event for the
\* key's registration.
C32_EveryChangeIsLogged ==
    [][\A id \in Ids, key \in KeySet :
          (/\ ValueChanges(id, key)
           /\ \/ Undo
              \/ Redo
              \/ ResetSection(id)
              \/ \E value \in Values : updateValue(id, key, value))
          => /\ bus'.sequence = bus.sequence + 1
             /\ bus'.last[1].type \in {"value.changed", "value.reset"}
             /\ bus'.last[1].payload.id = id]_vars

\* C32, for a reset and for an update of a registration the callback's
\* render knows: the change of the value comes with its event.
C32_UpdateAndResetAreLogged ==
    [][\A id \in Ids, key \in KeySet :
          (/\ ValueChanges(id, key)
           /\ MapHas(rendered.registrations, id)
           /\ OldValue(id, key) = CurrentValue(id, key)
           /\ \/ ResetSection(id)
              \/ \E value \in Values : updateValue(id, key, value))
          => /\ bus'.sequence = bus.sequence + 1
             /\ bus'.last[1].type \in {"value.changed", "value.reset"}
             /\ bus'.last[1].payload.id = id]_vars

\* C33: a reset that changes the current value of a key pushes a history
\* entry for the key whose oldValue is the value before the reset, the value
\* an undo would put back.
C33_ResetIsUndoable ==
    [][\A id \in Ids, key \in KeySet :
          (ResetSection(id) /\ ValueChanges(id, key))
          => \E n \in (Len(history.past) + 1)..Len(history'.past) :
                /\ history'.past[n].id = id
                /\ history'.past[n].key = key
                /\ history'.past[n].oldValue = CurrentValue(id, key)]_vars

\* undo moves the top entry of the undo stack to the redo stack and redo
\* moves it back: neither pushes an entry of its own nor empties the redo
\* stack, and undo without an entry changes nothing
UndoRedoKeepStacks ==
    /\ (Undo /\ history.past # <<>>)
       => /\ history'.past = SubSeq(history.past, 1, Len(history.past) - 1)
          /\ history'.future = Append(history.future, Last(history.past))
    /\ (Redo /\ history.future # <<>>)
       => /\ history'.past = Append(history.past, Last(history.future))
          /\ history'.future = SubSeq(history.future, 1, Len(history.future) - 1)
    /\ (Undo /\ history.past = <<>>) => UNCHANGED <<history, registrations, configStore>>

\* C34: undo and redo only move entries between the two stacks, and the
\* value an undo replaces is the new value of the entry it undoes, the value
\* the matching redo puts back: n undos followed by n redos restore every
\* value, and undos end with the empty undo stack.
C34_UndoThenRedoRestores ==
    [][/\ UndoRedoKeepStacks
       /\ (Undo /\ history.past # <<>> /\ MapHas(registrations, Last(history.past).id))
          => CurrentValue(Last(history.past).id, Last(history.past).key)
                = Last(history.past).newValue]_vars

\* C34, the stacks alone: undo and redo never push an entry of their own and
\* never empty the redo stack, and each undo shortens the undo stack by one.
C34_UndoRedoOnlyMoveEntries == [][UndoRedoKeepStacks]_vars

\* a step leaves the file, the save passes, the server's log and every
\* registration's source values as they are
ResetFrame ==
    /\ UNCHANGED <<disk, passes, isSaving, saveResult, store>>
    /\ \A id \in Ids :
          MapHas(registrations, id)
          => /\ MapHas(registrations', id)
             /\ MapGet(registrations', id).sourceConfig = MapGet(registrations, id).sourceConfig

\* C35: resetSection and resetAll persist nothing and change no source
\* value; resetSection emits one value.reset event for its registration and
\* resetAll one for each of the registrations it goes through, in their
\* order, and nothing else.
C35_ResetOnlyTouchesCurrent ==
    [][/\ \A id \in Ids :
             ResetSection(id)
             => /\ ResetFrame
                /\ Len(posts') = Len(posts) + 1
                /\ Last(posts').type = "value.reset"
                /\ Last(posts').payload.id = id
       /\ ResetAll
          => /\ ResetFrame
             /\ Len(posts') = Len(posts) + Len(rendered.registrations)
             /\ \A n \in 1..Len(rendered.registrations) :
                   /\ posts'[Len(posts) + n].type = "value.reset"
                   /\ posts'[Len(posts) + n].payload.id = rendered.registrations[n].id]_vars

\* resetAll has gone through two registrations, one of them edited and with
\* a saved value: the last two events are their value.reset events
C35_Witness ==
    /\ Len(posts) >= 4
    /\ posts[Len(posts) - 1].type = "value.reset"
    /\ posts[Len(posts) - 1].payload.id = "a"
    /\ Last(posts).type = "value.reset"
    /\ Last(posts).payload.id = "b"
    /\ Len(registrations) = 2
    /\ history.past # <<>>
    /\ disk["a"]["padding"] = 80
    /\ SourceValue("a", "padding") = 80
    /\ \A id \in Ids : MapGet(registrations, id).currentConfig = MapGet(registrations, id).sourceConfig

\* C36: a request to /__tangent/sync that is answered with an error leaves
\* the server's table as it was.
C36_FailedSyncChangesNothing ==
    [][/\ \A kind \in BodyKinds \ {"array"} :
             (PostSync([kind |-> kind])
                /\ SyncRequest(storeRegistrations, [kind |-> kind]).status # 200)
             => storeRegistrations' = storeRegistrations
       /\ \A list \in SyncLists :
             (PostSync([kind |-> "array", registrations |-> list])
                /\ SyncRequest(storeRegistrations,
                               [kind |-> "array", registrations |-> list]).status # 200)
             => storeRegistrations' = storeRegistrations]_vars

\* C36, for bodies that are not JSON or not an object: the handler fails
\* before it calls syncRegistrations and the table is as it was.
C36_UnparsedSyncChangesNothing ==
    [][\A kind \in {"malformed", "null"} :
          PostSync([kind |-> kind]) => storeRegistrations' = storeRegistrations]_vars

\* a step appends a value.saved event to the server's log
AppendsSaved ==
    /\ Len(store'.events) = Len(store.events) + 1
    /\ Last(store'.events).type = "value.saved"

\* C37: a successful persist appends one value.saved event to the server's
\* log, and nothing else appends one: the log holds exactly one value.saved
\* event per persist, for saveAll as for saveSection.
C37_OneSavedEventPerPersist ==
    [][/\ \A i \in 1..MaxPersistPasses :
             (ServerUpdate(i, TRUE) /\ disk' # disk) => AppendsSaved
       /\ AppendsSaved => \E i \in 1..MaxPersistPasses : ServerUpdate(i, TRUE)]_vars

\* C37, the update endpoint alone: a write of the file appends one
\* value.saved event with the written id, key and value.
C37_PersistIsLoggedOnce ==
    [][\A i \in 1..MaxPersistPasses :
          (ServerUpdate(i, TRUE) /\ passes'[i].await = "ok")
          => /\ AppendsSaved
             /\ Last(store'.events).payload.id = passes[i].changes[passes[i].at].id
             /\ Last(store'.events).payload.key = passes[i].changes[passes[i].at].key
             /\ Last(store'.events).payload.value
                   = passes[i].changes[passes[i].at].newValue]_vars

\* C38: the value.changed event of an updateValue carries the key's current
\* value of just before the update as oldValue, and so does the history
\* entry pushed for it.
C38_OldValueIsCurrentValue ==
    [][\A id \in Ids, key \in KeySet, value \in Values :
          (updateValue(id, key, value) /\ bus'.sequence # bus.sequence
             /\ MapHas(registrations, id))
          => /\ bus'.last[1].type = "value.changed"
             /\ bus'.last[1].payload.oldValue = CurrentValue(id, key)
             /\ history' # history
                => Last(history'.past).oldValue = CurrentValue(id, key)]_vars

\* C38, what the event and the entry do agree on: both carry the value the
\* callback's render holds for the key.
C38_EventAndEntryAgree ==
    [][\A id \in Ids, key \in KeySet, value \in Values :
          (updateValue(id, key, value) /\ bus'.sequence # bus.sequence)
          => /\ bus'.last[1].payload.oldValue = OldValue(id, key)
             /\ history' # history
                => Last(history'.past).oldValue = bus'.last[1].payload.oldValue]_vars

\* the server's table is what the sync effect would post of the browser's
\* registrations: same ids, values, source values and flags
TableIsBrowserState == storeRegistrations = syncData(registrations)

\* C39: once the browser's registrations have stopped changing, the server's
\* table becomes equal to them and stays equal, in whatever order the sync
\* requests in flight arrive.
C39_TableConverges == <>[]TableIsBrowserState

\* C39, with the sync requests arriving in the order in which they were
\* sent: the table becomes equal to the browser's registrations and stays
\* equal.
C39_TableConvergesInOrder == <>[](storeRegistrations = syncData(rendered.registrations))

\* the class the priority order selects: boolean, number, then for a string
\* key shadow, key or value gradient, key and value easing, value shadow,
\* value color, otherwise text
ClassByPriority(value, key) ==
    IF value.typeof = "boolean" THEN "boolean"
    ELSE IF value.typeof = "number" THEN "number"
    ELSE IF value.typeof = "string"
    THEN IF "shadow" \in key THEN "box-shadow"
         ELSE IF "gradient" \in key \/ "gradient" \in value.passes THEN "gradient"
         ELSE IF "easing" \in key /\ "easing" \in value.passes THEN "easing-curve"
         ELSE IF "shadow" \in value.passes THEN "box-shadow"
         ELSE IF "color" \in value.passes THEN "color"
         ELSE "text"
    ELSE "text"

\* the class a tag of the code stands for
ClassOf(tag) ==
    CASE tag = "boxshadow" -> "box-shadow"
      [] tag = "easing"    -> "easing-curve"
      [] tag = "string"    -> "text"
      [] OTHER             -> tag

\* C40: for every kind of value and key, detectValueType returns the class
\* the priority order selects.
C40_DetectFollowsPriority ==
    detected.result # "none"
    => ClassOf(detected.result) = ClassByPriority(detected.value, detected.key)

\* C40, totality, and the priority order for values that are neither a
\* bezier function nor an easing keyword: the result is one of the seven
\* classes, and for these values the class the priority order selects.
C40_DetectIsTotal ==
    detected.result # "none"
    => /\ ClassOf(detected.result) \in {"number", "boolean", "color", "gradient",
                                         "box-shadow", "easing-curve", "text"}
       /\ "easing" \notin detected.value.passes
          => ClassOf(detected.result) = ClassByPriority(detected.value, detected.key)

====
